---- MODULE Spec2Model ----
(***************************************************************************)
(* LJQO plugin: the two join-order search engines, TwoPO (twopo.c) and SDP *)
(* (sdp.c).  Units are the base relations 0 .. numNodes-1; the relids of a *)
(* unit or of a join is the set of base relations it covers.  The host     *)
(* planner (make_join_rel, have_relevant_joinclause, the cost model) is    *)
(* the environment: its answers are inputs drawn in the initial states.    *)
(***************************************************************************)
EXTENDS Integers, Sequences, FiniteSets, TLC

(* ------------------------------ bounds -------------------------------- *)
\* largest number of base relations handed to the join graph builders
MaxNodes == 4
\* largest edge list handed to the TwoPO state encoders
MaxEdges == 4
\* largest number of relations in a run of the II and SA phases
MaxSearchNodes == 3
\* largest twopo_ii_stop
MaxRestarts == 2
\* largest number of relations in a sequence given to the DP phase of SDP
MaxRels == 5
\* largest number of plans counted by the convergence hook in one run
MaxPlans == 4

(* ----------------------------- constants ------------------------------ *)
\* limits.h: the largest int
INT_MAX == 2147483647
\* sdp.h: default and admissible range of each SDP setting
DEFAULT_SDP_MIN_ITERATIONS == 50
MIN_SDP_MIN_ITERATIONS == 2
MAX_SDP_MIN_ITERATIONS == INT_MAX
DEFAULT_SDP_MAX_ITERATIONS == INT_MAX
MIN_SDP_MAX_ITERATIONS == 10
MAX_SDP_MAX_ITERATIONS == INT_MAX
DEFAULT_SDP_ITERATION_SLOPE == 5
MIN_SDP_ITERATION_SLOPE == 0
MAX_SDP_ITERATION_SLOPE == 100
DEFAULT_SDP_ITERATION_CONST == 250
MIN_SDP_ITERATION_CONST == 0
MAX_SDP_ITERATION_CONST == INT_MAX \div 2
\* a NULL RelOptInfo*: no relation set contains -1
NULL == {-1}

Nodes(n) == 0 .. (n - 1)
\* all unordered pairs of distinct units
Pairs(n) == {{a, b} : a \in Nodes(n), b \in Nodes(n)} \ {{a} : a \in Nodes(n)}

VARIABLES
    ljqo_algorithm,   \* the optimizer the GUC ljqo_algorithm selects
    pc,         \* position of the running optimizer call
    numNodes,   \* twopoEssentials.numNodes / private_data.number_of_rels
    canJoin,    \* pairs for which have_relevant_joinclause or
                \* have_join_order_restriction answers true
    noJoin,     \* the joins for which make_join_rel returns NULL
    rows,       \* estimated rows of each base relation (the planner's cost model)
    twopo_bushy_space,       \* configuration: bushy (TRUE) or left-deep states
    twopo_heuristic_states,  \* configuration: first initial state is heuristic
    twopo_ii_stop,           \* configuration: number of initial states
    twopo_ii_improve_states, \* configuration: iiImprove every initial state
    twopo_sa_phase,          \* configuration: run the SA phase
    twopo_sa_initial_temperature,   \* configuration, in hundredths
    twopo_sa_temperature_reduction, \* configuration, in hundredths
    twopo_sa_equilibrium,    \* configuration
    edgeList,   \* twopoEssentials.edgeList: sequence of <<node[0], node[1]>>
    adj,        \* twopoEssentials.adj
    edge_list,  \* private_data.edge_list of SDP: records node1, node2, relids
    input,          \* iiPhase: new_state, the input of iiImprove
    improved_state, \* iiImprove: output; iiPhase, saPhase: improved_state
    new_state,      \* iiImprove, saPhase: new_state, the last neighbour
    min_state,      \* iiPhase, saPhase, twopo: min_state
    S0,             \* twopo: S0, the initial_state of saPhase
    ii_i,           \* iiPhase: i
    ii_count,       \* iiImprove: i
    cheapest_cost,  \* iiImprove: cheapest_cost
    min_cost,       \* iiPhase, saPhase: min_cost; s_phase: min_cost
    ii_costs,       \* history: the costs of the states iiPhase compared so far
    improved_cost,  \* saPhase: improved_cost
    temperature,    \* saPhase: temperature, in units of 1/TempUnit
    stage_count,    \* saPhase: stage_count
    sa_i,           \* saPhase: i
    result,         \* twopo: the treeNode whose rel is returned; dp_phase: ret
    sequence,       \* dp_phase: sequence, as the relation indexes in order
    matrix,         \* dp_phase: matrix[level][p]
    level,          \* dp_phase: level
    p,              \* dp_phase: p
    attempted,      \* dp_phase: the pairs of relids handed to make_join_rel
    opte,           \* essentials->opte: the opteData of the convergence hook
    unhooked_state,   \* improved_state of the same run without the hook
    unhooked_result,  \* result of the same run without the hook
    same_decisions,   \* history: both runs took the same acceptance decisions
    fail,             \* neighbordState: fail, as left by the last call
    tree_built,       \* history: the last neighbordState call ran buildTree
    join_rel_list,    \* root->join_rel_list, as its length
    join_rel_hash,    \* root->join_rel_hash
    CurrentMemoryContext,  \* the memory context allocations go to
    ctx,              \* essentials->ctx: the tempCtx record, or NoCtx
    save_root_join_rel,    \* private_data.save_root_join_rel of SDP
    at_entry,         \* history: the planner bookkeeping when the call began
    after_restore,    \* history: the bookkeeping restoreOldContext returned with
    ctx_created,      \* history: temporary contexts created
    ctx_deleted,      \* history: temporary contexts torn down
    ctx_resets,       \* history: resets that took effect, counted up to 2
    reset_outside,    \* history: a reset took effect before creation or after teardown
    sdp_iteration_slope,   \* configuration of SDP
    sdp_iteration_const,   \* configuration of SDP
    sdp_min_iterations,    \* configuration of SDP
    sdp_max_iterations,    \* configuration of SDP
    end_loop,         \* s_phase: end_loop
    loop,             \* s_phase: loop
    cur_rels,         \* s_phase: cur_rels, the array the next sample is written to
    min_rels,         \* s_phase: min_rels, the unit order of the cheapest sample
    cur_rel,          \* s_phase: cur_rel, the relation of the last sample
    sample_costs,     \* history: the costs of the samples generated so far
    s_phase_rel_cost, \* private_data.s_phase_rel_cost
    reconstructed,    \* sdp: aux, the result of reconstruct_s_phase_rel
    sa_e,             \* saProbability: (int)(100.0*e)
    sa_r,             \* saProbability: r
    sa_accepted,      \* saProbability: the value returned
    twopo_cache_plans,  \* configuration: joinNodes keeps the nodes it builds
    arena,            \* history: resets of the temporary context so far
    root_rels,        \* the join relations in root->join_rel_list, each with
                      \* the total cost of its cheapest path
    parents,          \* treeNode.parents, as the pairs <<node, parent>>
    reused,           \* history: the nodes joinNodes took from a parents list
    src_list,         \* twopoList *src of a listCopy call
    dest_list         \* twopoList *dest of a listCopy call, and what it returns

inputVars == <<ljqo_algorithm, numNodes, canJoin, noJoin, rows, twopo_bushy_space, twopo_heuristic_states,
               twopo_ii_stop, twopo_ii_improve_states, twopo_sa_phase,
               twopo_sa_initial_temperature, twopo_sa_temperature_reduction,
               twopo_sa_equilibrium>>
graphVars == <<edgeList, adj, edge_list>>
iiVars == <<input, ii_i, ii_count, cheapest_cost>>
saVars == <<S0, improved_cost, temperature, stage_count, sa_i>>
searchVars == <<iiVars, saVars, min_state, min_cost, ii_costs>>
stateVars == <<improved_state, new_state, result>>
dpVars == <<sequence, matrix, level, p, attempted>>
hookVars == <<opte, unhooked_state, unhooked_result, same_decisions>>
plannerVars == <<join_rel_list, join_rel_hash, CurrentMemoryContext, ctx, save_root_join_rel,
                 at_entry, after_restore, ctx_created, ctx_deleted, ctx_resets, reset_outside>>
sdpConfVars == <<sdp_iteration_slope, sdp_iteration_const, sdp_min_iterations,
                 sdp_max_iterations>>
sdpVars == <<end_loop, loop, cur_rels, min_rels, cur_rel, sample_costs, s_phase_rel_cost, reconstructed>>
moveVars == <<fail, tree_built>>
drawVars == <<sa_e, sa_r, sa_accepted>>
cacheVars == <<twopo_cache_plans, arena, root_rels, parents, reused>>
listVars == <<src_list, dest_list>>
vars == <<pc, inputVars, graphVars, stateVars, searchVars, dpVars, hookVars, plannerVars,
          sdpConfVars, sdpVars, moveVars, drawVars, cacheVars, listVars>>

(* ===================== TwoPO: join graph builder ====================== *)

\* isDesirableEdge: the relids do not overlap and the planner knows a join
\* clause or a join order restriction between the two units
isDesirableEdge(cj, i, j) == i # j /\ {i, j} \in cj

\* body shared by the two inner loops of createEdges: append the edge and
\* mark both endpoints in has_adj and in the adjacency matrix
AddEdge_OneWay(st, a, b) ==
    [edgeList |-> Append(st.edgeList, <<a, b>>),
     has_adj  |-> [st.has_adj EXCEPT ![a] = TRUE, ![b] = TRUE],
     adj      |-> [st.adj EXCEPT ![a][b] = TRUE]]

AddEdge(st, a, b) ==
    [edgeList |-> Append(st.edgeList, <<a, b>>),
     has_adj  |-> [[st.has_adj EXCEPT ![a] = TRUE] EXCEPT ![b] = TRUE],
     adj      |-> [[st.adj EXCEPT ![a][b] = TRUE] EXCEPT ![b][a] = TRUE]]

\* for( j=i; j<numNodes; j++ ) if( isDesirableEdge(...) ) ...
RECURSIVE DesirableLoop(_, _, _, _, _)
DesirableLoop(st, cj, i, j, n) ==
    IF j >= n THEN st
    ELSE DesirableLoop(IF isDesirableEdge(cj, i, j) THEN AddEdge(st, i, j)
                       ELSE st, cj, i, j + 1, n)

\* mutant of CrossProductLoop: cross products only towards the later units
RECURSIVE CrossProductLoop_Later(_, _, _, _)
CrossProductLoop_Later(st, i, j, n) ==
    IF j >= n THEN st
    ELSE CrossProductLoop_Later(IF j <= i THEN st ELSE AddEdge(st, i, j), i, j + 1, n)

\* for( j=0; j<numNodes; j++ ) { if( i == j ) continue; ... }  (cross products)
RECURSIVE CrossProductLoop(_, _, _, _)
CrossProductLoop(st, i, j, n) ==
    IF j >= n THEN st
    ELSE CrossProductLoop(IF i = j THEN st ELSE AddEdge(st, i, j), i, j + 1, n)

\* mutant of NeedsCrossProducts: cross products for every unit
NeedsCrossProducts_Always(st, i) == TRUE

\* if( ! has_adj[i] )
NeedsCrossProducts(st, i) == ~st.has_adj[i]

\* for( i=0; i<numNodes; i++ ) ...
RECURSIVE CreateEdgesLoop(_, _, _, _)
CreateEdgesLoop(st, cj, i, n) ==
    IF i >= n THEN st
    ELSE LET s1 == DesirableLoop(st, cj, i, i, n)
             s2 == IF NeedsCrossProducts(s1, i)
                   THEN CrossProductLoop(s1, i, 0, n) ELSE s1
         IN  CreateEdgesLoop(s2, cj, i + 1, n)

\* createEdges: the edge list and the adjacency matrix of the query
CreateEdges(n, cj) ==
    CreateEdgesLoop([edgeList |-> <<>>,
                     has_adj  |-> [k \in Nodes(n) |-> FALSE],
                     adj      |-> [a \in Nodes(n) |-> [b \in Nodes(n) |-> FALSE]]],
                    cj, 0, n)

(* ================== TwoPO: encoding of join trees ===================== *)

\* convertIndex: f(x) = -x - 1, between a child value and an element index
convertIndex(idx) == (0 - idx) - 1

isJoinIndex(index) == index < 0

\* a bushy Element (child[0], child[1]) and a left-deep Element (rel)
JoinElement(c0, c1) == [child |-> [b \in 0 .. 1 |-> IF b = 0 THEN c0 ELSE c1]]
RelElement(r) == [rel |-> r]

\* find_root
RECURSIVE find_root(_, _)
find_root(idx, parent_list) ==
    IF parent_list[idx] = idx THEN idx ELSE find_root(parent_list[idx], parent_list)

\* one pass of the edge-by-edge loop of encodeBushyTree (Kruskal): when the
\* roots differ, join_trees keeps the heavier root as root1 and one join
\* element is written
encodeBushyStep(k, edge) ==
    LET r1 == find_root(edge[1], k.parent)
        r2 == find_root(edge[2], k.parent)
        heavy == IF k.weight[r2] > k.weight[r1] THEN r2 ELSE r1
        light == IF k.weight[r2] > k.weight[r1] THEN r1 ELSE r2
    IN  IF r1 = r2 THEN k
        ELSE [parent      |-> [k.parent EXCEPT ![light] = k.parent[heavy]],
              weight      |-> [k.weight EXCEPT ![heavy] = k.weight[heavy] + k.weight[light]],
              subtrees    |-> [k.subtrees EXCEPT ![heavy] = convertIndex(Len(k.elements))],
              numSubtrees |-> k.numSubtrees - 1,
              elements    |-> Append(k.elements,
                                     JoinElement(k.subtrees[heavy], k.subtrees[light]))]

\* for (i=0; i < numEdges && numSubtrees > 1; i++)
RECURSIVE encodeBushyLoop(_, _, _)
encodeBushyLoop(k, edges, i) ==
    IF i > Len(edges) \/ k.numSubtrees <= 1 THEN k
    ELSE encodeBushyLoop(encodeBushyStep(k, edges[i]), edges, i + 1)

\* encodeBushyTree: the join elements it writes, in order (it writes fewer
\* than numNodes-1 when the edges leave more than one sub-tree)
encodeBushyTree(edges, n) ==
    encodeBushyLoop([parent      |-> [v \in Nodes(n) |-> v],
                     weight      |-> [v \in Nodes(n) |-> 1],
                     subtrees    |-> [v \in Nodes(n) |-> v],
                     numSubtrees |-> n,
                     elements    |-> <<>>], edges, 1).elements

\* XOR macro
XOR(a, b) == (a \/ b) /\ ~(a /\ b)

\* inner search of encodeLeftDeepTree: the first j >= i whose edge has
\* exactly one used endpoint, or numEdges+1 when there is none
RECURSIVE FirstOpenEdge(_, _, _)
FirstOpenEdge(edges, used, j) ==
    IF j > Len(edges) THEN j
    ELSE IF XOR(used[edges[j][1]], used[edges[j][2]]) THEN j
    ELSE FirstOpenEdge(edges, used, j + 1)

\* for( k=j-1; k>=i; k-- ) if an endpoint of edges[k] is unused: edges[j--] = edges[k]
RECURSIVE CompactEdges(_, _, _, _, _)
CompactEdges(edges, used, i, j, k) ==
    IF k < i THEN [edges |-> edges, j |-> j]
    ELSE IF ~used[edges[k][1]] \/ ~used[edges[k][2]]
         THEN CompactEdges([edges EXCEPT ![j] = edges[k]], used, i, j - 1, k - 1)
         ELSE CompactEdges(edges, used, i, j, k - 1)

\* edge-by-edge loop of encodeLeftDeepTree (indexes are 1-based here)
RECURSIVE encodeLeftDeepLoop(_, _, _, _, _)
encodeLeftDeepLoop(edges, used, out, i, n) ==
    IF i > Len(edges) THEN out
    ELSE LET j     == FirstOpenEdge(edges, used, i)
             found == j <= Len(edges)
             rel   == IF used[edges[j][1]] THEN edges[j][2] ELSE edges[j][1]
             out1  == IF found THEN Append(out, RelElement(rel)) ELSE out
             used1 == IF found THEN [used EXCEPT ![rel] = TRUE] ELSE used
         IN  IF Len(out1) = n \/ ~found THEN out1
             ELSE LET c == CompactEdges(edges, used1, i, j, j - 1)
                  IN  encodeLeftDeepLoop(c.edges, used1, out1, c.j + 1, n)

\* encodeLeftDeepTree: the relations it writes, in order (fewer than numNodes
\* when no remaining edge leaves the used relations)
encodeLeftDeepTree(edges, n) ==
    encodeLeftDeepLoop(edges,
                       [v \in Nodes(n) |-> v \in {edges[1][1], edges[1][2]}],
                       <<RelElement(edges[1][1]), RelElement(edges[1][2])>>, 2, n)

(* =============== TwoPO: joins and the trees of a State ================ *)

\* make_join_rel as seen through its result: NULL when the planner refuses
\* the join, otherwise the join relation of the union of the relids.  A
\* refusal in nj is {s}, every join that yields the relation set s, or
\* {s1, s2}, the join of these two relation sets
MakeJoinRel(nj, s1, s2) ==
    IF {s1 \cup s2} \in nj \/ {s1, s2} \in nj THEN NULL ELSE s1 \cup s2

\* estimated rows of a relation set
RECURSIVE RowsOf(_, _)
RowsOf(rw, s) ==
    IF s = {} THEN 1
    ELSE LET u == CHOOSE x \in s : TRUE IN rw[u] * RowsOf(rw, s \ {u})

\* a treeNode as the search reads it: the relids of node->rel and nodeCost(node)
NullNode == [relids |-> NULL, cost |-> 0]
BaseNode(rw, u) == [relids |-> {u}, cost |-> rw[u]]

\* total cost of the cheapest path of a join relation built from two
\* relations whose cheapest paths are known: the planner's cost model
JoinPathCost(rw, rel1, rel2) ==
    rel1.cost + rel2.cost + RowsOf(rw, rel1.relids) * RowsOf(rw, rel2.relids)

\* joinNodes (plan cache off): make_join_rel and set_cheapest on the pair;
\* the cheapest total cost of the join adds the cost of this join to the
\* costs of its inputs
joinNodes(nj, rw, inner_node, outer_node) ==
    IF inner_node.relids = NULL \/ outer_node.relids = NULL THEN NullNode
    ELSE LET jrel == MakeJoinRel(nj, inner_node.relids, outer_node.relids)
         IN  IF jrel = NULL THEN NullNode
             ELSE [relids |-> jrel, cost |-> JoinPathCost(rw, inner_node, outer_node)]

\* the join elements a child value refers to, itself included
RECURSIVE ElementsUnder(_, _)
ElementsUnder(el, value) ==
    IF ~isJoinIndex(value) THEN {}
    ELSE LET idx == convertIndex(value)
         IN  {idx} \cup ElementsUnder(el, el[idx].child[0])
                   \cup ElementsUnder(el, el[idx].child[1])

\* the join elements reachable from the children of the elements in s
RECURSIVE ReachableElements(_, _)
ReachableElements(el, s) ==
    LET t == s \cup {convertIndex(el[i].child[b]) :
                       <<i, b>> \in {x \in s \X {0, 1} : isJoinIndex(el[x[1]].child[x[2]])}}
    IN  IF t = s THEN s ELSE ReachableElements(el, t)

\* joinSubplans recursion never ends on an element that is its own descendant
HasCycle(el) ==
    \E i \in DOMAIN el :
        i \in ReachableElements(el, {convertIndex(el[i].child[b]) :
                                       b \in {c \in {0, 1} : isJoinIndex(el[i].child[c])}})

\* joinSubplans
RECURSIVE joinSubplans(_, _, _, _)
joinSubplans(nj, rw, el, joinIndex) ==
    IF ~isJoinIndex(joinIndex) THEN BaseNode(rw, joinIndex)
    ELSE LET idx == convertIndex(joinIndex)
         IN  joinNodes(nj, rw, joinSubplans(nj, rw, el, el[idx].child[0]),
                               joinSubplans(nj, rw, el, el[idx].child[1]))

\* loop of buildBushyTree: node is the sub-plan of the last element that
\* no earlier call had built
RECURSIVE buildBushyLoop(_, _, _, _)
buildBushyLoop(el, i, built, node) ==
    IF i \notin DOMAIN el THEN node
    ELSE IF i \in built THEN buildBushyLoop(el, i + 1, built, node)
    ELSE buildBushyLoop(el, i + 1, built \cup ElementsUnder(el, convertIndex(i)),
                        convertIndex(i))

\* buildBushyTree
buildBushyTree(nj, rw, el) == joinSubplans(nj, rw, el, buildBushyLoop(el, 0, {}, 0))

\* buildLeftDeepTree
RECURSIVE buildLeftDeepLoop(_, _, _, _, _)
buildLeftDeepLoop(nj, rw, el, i, node) ==
    IF i \notin DOMAIN el THEN node
    ELSE buildLeftDeepLoop(nj, rw, el, i + 1,
                           joinNodes(nj, rw, node, BaseNode(rw, el[i].rel)))

buildLeftDeepTree(nj, rw, el) == buildLeftDeepLoop(nj, rw, el, 1, BaseNode(rw, el[0].rel))

\* buildTree: the node built for the state
buildTree(nj, rw, bushy, el) ==
    IF bushy THEN buildBushyTree(nj, rw, el) ELSE buildLeftDeepTree(nj, rw, el)

\* the build does not return: endless recursion on a cyclic element list, or
\* a NULL join whose cost is read
BuildCrashes(nj, rw, bushy, el) ==
    \/ bushy /\ HasCycle(el)
    \/ buildTree(nj, rw, bushy, el).relids = NULL

COST_UNGENERATED == 0

\* a State: elementList indexed from 0, and the cost buildTree left in it
MakeState(el, cost) == [elementList |-> el, cost |-> cost]

\* the State after buildTree( state )
Built(nj, rw, bushy, el) ==
    MakeState(el, IF BuildCrashes(nj, rw, bushy, el) THEN COST_UNGENERATED
                  ELSE buildTree(nj, rw, bushy, el).cost)

(* ================ TwoPO: neighbours of a State ======================== *)

\* baserelsOfSubtree: the base relations under a child value, in list order
RECURSIVE baserelsOfSubtree(_, _)
baserelsOfSubtree(el, value) ==
    IF isJoinIndex(value)
    THEN baserelsOfSubtree(el, el[convertIndex(value)].child[0])
         \o baserelsOfSubtree(el, el[convertIndex(value)].child[1])
    ELSE <<value>>

\* hasEdgeBetweenSubtrees
hasEdgeBetweenSubtrees(aj, el, subIdx1, subIdx2) ==
    LET list1 == baserelsOfSubtree(el, subIdx1)
        list2 == baserelsOfSubtree(el, subIdx2)
    IN  \E i \in DOMAIN list1 : \E j \in DOMAIN list2 : aj[list1[i]][list2[j]]

\* variant: the uncle is written into the father's element and the child
\* is not written back
SwapChildUncle_DropsChild(el, r, fs, cs) ==
    [el EXCEPT ![convertIndex(el[r].child[fs])].child[cs] = el[r].child[1 - fs]]

\* swapValues(int, *child, *uncle) with join = element r, father = its
\* child[fs], child = child[cs] of the father's element
SwapChildUncle(el, r, fs, cs) ==
    LET f == convertIndex(el[r].child[fs])
        u == el[r].child[1 - fs]
        c == el[f].child[cs]
    IN  [[el EXCEPT ![f].child[cs] = u] EXCEPT ![r].child[1 - fs] = c]

\* variant: the first child is swapped without the test of the brother
LegalChild_Untested(aj, el, r, fs) == 0

\* variant: only the first of the father's two children is tried
LegalChild_OneOrientation(aj, el, r, fs) ==
    IF hasEdgeBetweenSubtrees(aj, el, el[r].child[1 - fs],
                              el[convertIndex(el[r].child[fs])].child[1])
    THEN 0 ELSE 2

\* for( j=0; j<2; j++ ): the first of the father's two children whose
\* brother has an edge to the uncle; 2 when neither has
LegalChild(aj, el, r, fs) ==
    LET f == convertIndex(el[r].child[fs])
        u == el[r].child[1 - fs]
    IN  IF hasEdgeBetweenSubtrees(aj, el, u, el[f].child[1]) THEN 0
        ELSE IF hasEdgeBetweenSubtrees(aj, el, u, el[f].child[0]) THEN 1
        ELSE 2

\* for( i=0; i<2; i++ ): father is child[0] when that is a join element;
\* child[1] is looked at only when child[0] is a base relation
FatherSide(el, r) ==
    IF isJoinIndex(el[r].child[0]) THEN 0
    ELSE IF isJoinIndex(el[r].child[1]) THEN 1
    ELSE 2

\* one pass of the while( !ok ) loop of neighbordStateBushy with the drawn
\* join element r
TryJoinElement(aj, el, r) ==
    LET fs == FatherSide(el, r)
        cs == IF fs = 2 THEN 2 ELSE LegalChild(aj, el, r, fs)
    IN  IF fs = 2 \/ cs = 2 THEN [ok |-> FALSE, elementList |-> el]
        ELSE [ok |-> TRUE, elementList |-> SwapChildUncle(el, r, fs, cs)]

\* variant: the loop starts at pos instead of pos-1
canRelPushedDown_FromPos(aj, el, rel, pos) == \E i \in 0 .. pos : aj[rel][el[i].rel]

\* canRelPushedDown
canRelPushedDown(aj, el, rel, pos) == \E i \in 0 .. (pos - 1) : aj[rel][el[i].rel]

\* swapValues on two positions of a left-deep element list
SwapRels(el, a, b) == [[el EXCEPT ![a] = el[b]] EXCEPT ![b] = el[a]]

\* variant: the swap is done before the test and kept when the test fails
neighbordStateLeftDeep_SwapsFirst(aj, el, swapMethod, idx) ==
    IF swapMethod
    THEN [fail |-> ~canRelPushedDown(aj, el, el[idx + 1].rel, idx),
          elementList |-> SwapRels(el, idx, idx + 1)]
    ELSE [fail |-> ~canRelPushedDown(aj, el, el[idx + 2].rel, idx),
          elementList |-> SwapRels(SwapRels(el, idx, idx + 1), idx + 1, idx + 2)]

\* neighbordStateLeftDeep with the drawn method and position
neighbordStateLeftDeep(aj, el, swapMethod, idx) ==
    IF swapMethod
    THEN IF canRelPushedDown(aj, el, el[idx + 1].rel, idx)
         THEN [fail |-> FALSE, elementList |-> SwapRels(el, idx, idx + 1)]
         ELSE [fail |-> TRUE, elementList |-> el]
    ELSE IF canRelPushedDown(aj, el, el[idx + 2].rel, idx)
         THEN [fail |-> FALSE,
               elementList |-> SwapRels(SwapRels(el, idx, idx + 1), idx + 1, idx + 2)]
         ELSE [fail |-> TRUE, elementList |-> el]

(* ====================== SDP: join graph builder ======================= *)

\* is_it_a_possible_join
is_it_a_possible_join(nj, i, j) == MakeJoinRel(nj, {i}, {j}) # NULL

\* create_edge
create_edge(i, j) == [node1 |-> i, node2 |-> j, relids |-> {i, j}]

\* first pass of create_edge_list, inner loop: for(j=i+1; j<nrels; j++)
RECURSIVE RelevantLoop(_, _, _, _, _)
RelevantLoop(st, cj, i, j, n) ==
    IF j >= n THEN st
    ELSE RelevantLoop(IF {i, j} \in cj
                      THEN [list |-> Append(st.list, create_edge(i, j)),
                            used |-> [[st.used EXCEPT ![i] = TRUE] EXCEPT ![j] = TRUE],
                            error |-> st.error]
                      ELSE st, cj, i, j + 1, n)

RECURSIVE FirstPass(_, _, _, _)
FirstPass(st, cj, i, n) ==
    IF i >= n THEN st ELSE FirstPass(RelevantLoop(st, cj, i, i + 1, n), cj, i + 1, n)

\* second pass, inner loop: for(j=0; j<nrels; j++) if( i != j ) ...
RECURSIVE PossibleLoop(_, _, _, _, _)
PossibleLoop(st, nj, i, j, n) ==
    IF j >= n THEN st
    ELSE PossibleLoop(IF i # j /\ is_it_a_possible_join(nj, i, j)
                      THEN [list |-> Append(st.list, create_edge(i, j)),
                            used |-> [st.used EXCEPT ![i] = TRUE],
                            error |-> st.error]
                      ELSE st, nj, i, j + 1, n)

\* second pass: search for not used rels; elog(ERROR) when one stays unused
RECURSIVE SecondPass(_, _, _, _)
SecondPass(st, nj, i, n) ==
    IF i >= n \/ st.error THEN st
    ELSE IF st.used[i] THEN SecondPass(st, nj, i + 1, n)
    ELSE LET s1 == PossibleLoop(st, nj, i, 0, n)
         IN  SecondPass([s1 EXCEPT !.error = ~s1.used[i]], nj, i + 1, n)

\* create_edge_list
CreateEdgeList(n, cj, nj) ==
    SecondPass(FirstPass([list |-> <<>>, used |-> [k \in Nodes(n) |-> FALSE],
                          error |-> FALSE], cj, 0, n),
               nj, 0, n)

(* ================= TwoPO: initial states ============================== *)

\* randomState, loop from position i (1-based): item = random() % (numEdges - i),
\* if( item != i ) swap edgeList[i] and edgeList[item+i]; the set of edge
\* orders the draws can produce
RECURSIVE randomStateLoop(_, _)
randomStateLoop(edges, i) ==
    IF i > Len(edges) THEN {edges}
    ELSE UNION {randomStateLoop(IF item # i - 1
                                THEN [[edges EXCEPT ![i] = edges[item + i]]
                                             EXCEPT ![item + i] = edges[i]]
                                ELSE edges, i + 1) :
                item \in 0 .. (Len(edges) - i)}

randomState(edges) == randomStateLoop(edges, 1)

\* cost heuristicState_1 gives an edge: the cost of joining its two relations
HeuristicCost(nj, rw, edge) ==
    joinNodes(nj, rw, BaseNode(rw, edge[1]), BaseNode(rw, edge[2])).cost

\* the orders qsort may leave the edges in: ascending cost, ties in any order
RECURSIVE SortedOrders(_, _, _, _)
SortedOrders(nj, rw, edges, left) ==
    IF left = {} THEN {<<>>}
    ELSE LET least == {k \in left : \A m \in left :
                          HeuristicCost(nj, rw, edges[k]) <= HeuristicCost(nj, rw, edges[m])}
         IN  UNION {{<<edges[k]>> \o rest :
                        rest \in SortedOrders(nj, rw, edges, left \ {k})} : k \in least}

\* heuristicState_1
heuristicState_1(nj, rw, edges) == SortedOrders(nj, rw, edges, DOMAIN edges)

\* heuristicState_1 reads the cost of a join the planner refused
HeuristicCrashes(nj, edges) ==
    \E k \in DOMAIN edges : MakeJoinRel(nj, {edges[k][1]}, {edges[k][2]}) = NULL

\* createState: number of elements of a State
StateSize(bushy, n) == IF bushy THEN n - 1 ELSE n

\* the elements encodeBushyTree / encodeLeftDeepTree write for an edge order
Encoded(bushy, edges, n) ==
    IF bushy THEN encodeBushyTree(edges, n) ELSE encodeLeftDeepTree(edges, n)

\* what an element that the encoder did not write may hold and still be
\* inside the arrays: any child value, any relation index
GarbageElements(bushy, n) ==
    IF bushy THEN {JoinElement(a, b) : a \in (1 - n) .. (n - 1), b \in (1 - n) .. (n - 1)}
    ELSE {RelElement(r) : r \in Nodes(n)}

\* the element lists makeInitialState can leave in a newly allocated State:
\* the written elements, then uninitialised memory
InitialElementLists(bushy, edges, n) ==
    LET written == Encoded(bushy, edges, n)
        size    == StateSize(bushy, n)
    IN  {[i \in 0 .. (size - 1) |->
             IF i < Len(written) THEN written[i + 1] ELSE g[i]] :
         g \in [Len(written) .. (size - 1) -> GarbageElements(bushy, n)]}

(* ============================= actions ================================ *)

\* the planner's refusals: none, or every join that yields one given set
NoJoinChoices(n) ==
    {{}} \cup {{{s}} : s \in {x \in SUBSET Nodes(n) : Cardinality(x) >= 2}}

\* cost models: rows 1, 2, 3, ... per base relation, or one row each
\* (every join costs the same)
RowsChoices(n) == {[u \in Nodes(n) |-> u + 1], [u \in Nodes(n) |-> 1]}

NoState == MakeState(<<>>, COST_UNGENERATED)

IdleState ==
    /\ improved_state = NoState
    /\ new_state = NoState
    /\ result = NullNode
    /\ input = NoState
    /\ min_state = NoState
    /\ S0 = NoState
    /\ ii_i = 0
    /\ ii_count = 0
    /\ cheapest_cost = COST_UNGENERATED
    /\ min_cost = COST_UNGENERATED
    /\ ii_costs = {}
    /\ improved_cost = COST_UNGENERATED
    /\ temperature = 0
    /\ stage_count = 0
    /\ sa_i = 0
    /\ fail = FALSE
    /\ tree_built = FALSE

\* a twopoList: size, buffersize and the buffer, one cell per element
\* (elementsize is the unit); allocated is FALSE for a NULL pointer
NullList == [allocated |-> FALSE, size |-> 0, buffersize |-> 0, buffer |-> <<>>]

\* no call of listCopy in progress
IdleList ==
    /\ src_list = NullList
    /\ dest_list = NullList

\* the plan cache is off and holds nothing
IdleCache ==
    /\ twopo_cache_plans = FALSE
    /\ arena = 0
    /\ root_rels = {}
    /\ parents = {}
    /\ reused = {}

\* no call of saProbability in progress
IdleDraw ==
    /\ sa_e = 0
    /\ sa_r = -1
    /\ sa_accepted = FALSE

\* essentials->opte == NULL: no hook registered (or OPTE compiled out)
NoOpte == [registered |-> FALSE, plan_count |-> 0, plan_min_cost |-> 0]

IdleHook ==
    /\ opte = NoOpte
    /\ unhooked_state = NoState
    /\ unhooked_result = NullNode
    /\ same_decisions = TRUE

\* no tempCtx record: essentials->ctx == NULL
NoCtx == [savelength |-> -1, savehash |-> "none", oldcxt |-> "none"]

\* restoreOldContext has not returned yet
NoRestore == [list |-> -1, hash |-> "none", context |-> "none", ctx |-> NoCtx]

\* the bookkeeping of a planner that no optimizer call has touched
IdlePlanner ==
    /\ join_rel_list = 0
    /\ join_rel_hash = "NULL"
    /\ CurrentMemoryContext = "caller"
    /\ ctx = NoCtx
    /\ save_root_join_rel = [length |-> 0, hash |-> "NULL"]
    /\ at_entry = [length |-> 0, hash |-> "NULL", context |-> "caller"]
    /\ after_restore = NoRestore
    /\ ctx_created = 0
    /\ ctx_deleted = 0
    /\ ctx_resets = 0
    /\ reset_outside = FALSE

\* the default configuration of SDP (sdp.h)
IdleSdpConf ==
    /\ sdp_iteration_slope = DEFAULT_SDP_ITERATION_SLOPE
    /\ sdp_iteration_const = DEFAULT_SDP_ITERATION_CONST
    /\ sdp_min_iterations = DEFAULT_SDP_MIN_ITERATIONS
    /\ sdp_max_iterations = DEFAULT_SDP_MAX_ITERATIONS

IdleSdp ==
    /\ end_loop = 0
    /\ loop = 0
    /\ cur_rels = <<>>
    /\ min_rels = <<>>
    /\ cur_rel = NullNode
    /\ sample_costs = {}
    /\ s_phase_rel_cost = 0
    /\ reconstructed = NullNode

IdleDP ==
    /\ sequence = <<>>
    /\ matrix = <<>>
    /\ level = 0
    /\ p = 0
    /\ attempted = {}

(* --------------- the planner's join relation bookkeeping -------------- *)

\* the bookkeeping as one record: the length of root->join_rel_list,
\* root->join_rel_hash ("NULL", or the memory context the table was built
\* in), CurrentMemoryContext and essentials->ctx
ThePlanner ==
    [list |-> join_rel_list, hash |-> join_rel_hash, context |-> CurrentMemoryContext,
     ctx |-> ctx]

\* list_truncate, on lengths
list_truncate(len, new_size) == IF new_size >= len THEN len ELSE new_size

\* createTemporaryContext
createTemporaryContext(pl) ==
    [list |-> pl.list, hash |-> "NULL", context |-> "TwoPO Memory Context",
     ctx |-> [savelength |-> pl.list, savehash |-> pl.hash, oldcxt |-> pl.context]]

\* resetTemporaryContext
resetTemporaryContext(pl) ==
    IF pl.ctx = NoCtx THEN pl
    ELSE [pl EXCEPT !.list = list_truncate(pl.list, pl.ctx.savelength), !.hash = "NULL"]

\* variant of restoreOldContext: essentials->ctx keeps the record
restoreOldContext_KeepsCtx(pl) ==
    IF pl.ctx = NoCtx THEN pl
    ELSE [list |-> list_truncate(pl.list, pl.ctx.savelength), hash |-> pl.ctx.savehash,
          context |-> pl.ctx.oldcxt, ctx |-> pl.ctx]

\* restoreOldContext
restoreOldContext(pl) ==
    IF pl.ctx = NoCtx THEN pl
    ELSE [list |-> list_truncate(pl.list, pl.ctx.savelength), hash |-> pl.ctx.savehash,
          context |-> pl.ctx.oldcxt, ctx |-> NoCtx]

\* save_root_join_rel
SaveRootJoinRel(pl) == [length |-> pl.list, hash |-> pl.hash]

\* clear_root_join_rel
ClearRootJoinRel(save, pl) ==
    [pl EXCEPT !.list = list_truncate(pl.list, save.length), !.hash = "NULL"]

\* restore_root_join_rel
RestoreRootJoinRel(save, pl) ==
    [pl EXCEPT !.list = list_truncate(pl.list, save.length), !.hash = save.hash]

\* make_join_rel called for k new join relations: they are appended to
\* join_rel_list; a planner whose list was long enough to have a hash table
\* at entry (hashed) builds the table again, in the current context, when
\* it looks a relation up and finds none
AddJoinRels(pl, k, hashed) ==
    [pl EXCEPT !.list = pl.list + k,
               !.hash = IF pl.hash = "NULL" /\ hashed /\ k > 0 THEN pl.context ELSE pl.hash]

SetPlanner(pl) ==
    /\ join_rel_list' = pl.list
    /\ join_rel_hash' = pl.hash
    /\ CurrentMemoryContext' = pl.context
    /\ ctx' = pl.ctx

UpTo2(k) == IF k > 2 THEN 2 ELSE k

\* buildTree on the bookkeeping: resetTemporaryContext, then the joins of the
\* tree (numNodes - 1 join relations)
buildTreeBookkeeping ==
    /\ SetPlanner(AddJoinRels(resetTemporaryContext(ThePlanner), numNodes - 1,
                              at_entry.hash # "NULL"))
    /\ ctx_resets' = IF ctx # NoCtx THEN UpTo2(ctx_resets + 1) ELSE ctx_resets
    /\ reset_outside' = (reset_outside \/ (ctx # NoCtx /\ ctx_created <= ctx_deleted))
    /\ UNCHANGED <<save_root_join_rel, at_entry, after_restore, ctx_created, ctx_deleted>>

\* twopo() from restoreOldContext to the final buildTree, on the bookkeeping
restoreAndBuildBookkeeping ==
    LET r == restoreOldContext(ThePlanner)
    IN  /\ after_restore' = r
        /\ SetPlanner(AddJoinRels(resetTemporaryContext(r), numNodes - 1,
                                  at_entry.hash # "NULL"))
        /\ ctx_deleted' = IF ctx # NoCtx THEN ctx_deleted + 1 ELSE ctx_deleted
        /\ ctx_resets' = IF r.ctx # NoCtx THEN UpTo2(ctx_resets + 1) ELSE ctx_resets
        /\ reset_outside' = (reset_outside \/ r.ctx # NoCtx)
        /\ UNCHANGED <<save_root_join_rel, at_entry, ctx_created>>

\* the configuration of a run that only builds the join graph
NoSearch ==
    /\ twopo_ii_stop = 1
    /\ twopo_ii_improve_states = FALSE
    /\ twopo_sa_phase = FALSE
    /\ twopo_sa_initial_temperature = 25
    /\ twopo_sa_temperature_reduction = 50
    /\ twopo_sa_equilibrium = 1

InitGraph ==
    /\ pc = "start"
    /\ ljqo_algorithm \in {"twopo", "sdp"}
    /\ numNodes \in 2 .. MaxNodes
    /\ canJoin \in SUBSET Pairs(numNodes)
    /\ noJoin \in NoJoinChoices(numNodes)
    /\ rows = [u \in Nodes(numNodes) |-> u + 1]
    /\ twopo_bushy_space = TRUE
    /\ twopo_heuristic_states = TRUE
    /\ NoSearch
    /\ edgeList = <<>>
    /\ adj = [a \in Nodes(numNodes) |-> [b \in Nodes(numNodes) |-> FALSE]]
    /\ edge_list = <<>>
    /\ IdleState
    /\ IdleDraw
    /\ IdleCache
    /\ IdleList
    /\ IdleDP
    /\ IdleHook
    /\ IdlePlanner
    /\ IdleSdpConf
    /\ IdleSdp

\* twopo(): createEssentials -> createEdges and, with more than two
\* relations, createTemporaryContext
createEdges ==
    /\ pc = "start" /\ ljqo_algorithm = "twopo"
    /\ LET r == CreateEdges(numNodes, canJoin)
       IN  /\ edgeList' = r.edgeList
           /\ adj' = r.adj
    /\ IF numNodes > 2
       THEN /\ SetPlanner(createTemporaryContext(ThePlanner))
            /\ ctx_created' = ctx_created + 1
       ELSE UNCHANGED <<join_rel_list, join_rel_hash, CurrentMemoryContext, ctx, ctx_created>>
    /\ pc' = "twopo_edges"
    /\ UNCHANGED <<save_root_join_rel, at_entry, after_restore, ctx_deleted, ctx_resets,
                   reset_outside>>
    /\ UNCHANGED <<moveVars, listVars, cacheVars, drawVars, sdpConfVars, sdpVars, hookVars, dpVars, inputVars, edge_list, stateVars, searchVars>>

\* the edges the second pass of create_edge_list added: one join relation
\* each, made by is_it_a_possible_join
PossibleJoinsMade(n, cj, nj) ==
    Len(CreateEdgeList(n, cj, nj).list)
        - Len(FirstPass([list |-> <<>>, used |-> [k \in Nodes(n) |-> FALSE],
                         error |-> FALSE], cj, 0, n).list)

\* sdp(): initiate_private_data (save_root_join_rel) -> create_edge_list,
\* which clears the bookkeeping, tries joins in a temporary context and
\* restores the bookkeeping unless it ends with elog(ERROR)
create_edge_list ==
    /\ pc = "start" /\ ljqo_algorithm = "sdp"
    /\ LET r == CreateEdgeList(numNodes, canJoin, noJoin)
           save == SaveRootJoinRel(ThePlanner)
           inside == [ClearRootJoinRel(save, ThePlanner) EXCEPT !.context = "SDP Temp"]
           tried == [AddJoinRels(inside, PossibleJoinsMade(numNodes, canJoin, noJoin),
                                 at_entry.hash # "NULL")
                        EXCEPT !.context = CurrentMemoryContext]
       IN  /\ edge_list' = r.list
           /\ pc' = IF r.error THEN "sdp_error" ELSE "sdp_edges"
           /\ save_root_join_rel' = save
           /\ SetPlanner(IF r.error THEN tried ELSE RestoreRootJoinRel(save, tried))
    /\ UNCHANGED <<at_entry, after_restore, ctx_created, ctx_deleted, ctx_resets, reset_outside>>
    /\ UNCHANGED <<moveVars, listVars, cacheVars, drawVars, sdpConfVars, sdpVars, hookVars, dpVars, inputVars, edgeList, adj, stateVars, searchVars>>

NextGraph == createEdges \/ create_edge_list

SpecGraph == InitGraph /\ [][NextGraph]_vars

(* ================= TwoPO: the II and SA phases ======================== *)

\* neighbordState: the States it can return for the input State st, each
\* with whether building it crashes, whether the move failed and whether
\* buildTree was called; after a failed left-deep move the output is what
\* copyState and the move left in it, and it is not built
neighbordState(aj, nj, rw, bushy, st) ==
    IF bushy
    THEN {[state |-> Built(nj, rw, TRUE, t.elementList),
           crashes |-> BuildCrashes(nj, rw, TRUE, t.elementList),
           fail |-> FALSE, built |-> TRUE] :
          t \in {x \in {TryJoinElement(aj, st.elementList, r) : r \in DOMAIN st.elementList} :
                     x.ok}}
    ELSE LET size == Cardinality(DOMAIN st.elementList)
             moves == {neighbordStateLeftDeep(aj, st.elementList, TRUE, idx) :
                          idx \in 0 .. (size - 2)}
                      \cup {neighbordStateLeftDeep(aj, st.elementList, FALSE, idx) :
                               idx \in 0 .. (size - 3)}
         IN  {[state |-> IF t.fail THEN MakeState(t.elementList, st.cost)
                         ELSE Built(nj, rw, FALSE, t.elementList),
               crashes |-> ~t.fail /\ BuildCrashes(nj, rw, FALSE, t.elementList),
               fail |-> t.fail, built |-> ~t.fail] :
              t \in moves}

\* makeInitialState: the States it can return at restart iteratorIndex
MakeInitialStates(iteratorIndex) ==
    LET heuristic == twopo_heuristic_states /\ iteratorIndex = 0
        orders == IF heuristic THEN heuristicState_1(noJoin, rows, edgeList)
                  ELSE randomState(edgeList)
    IN  IF heuristic /\ HeuristicCrashes(noJoin, edgeList)
        THEN {[state |-> NoState, crashes |-> TRUE]}
        ELSE
        UNION {{[state |-> Built(noJoin, rows, twopo_bushy_space, el),
                 crashes |-> BuildCrashes(noJoin, rows, twopo_bushy_space, el)] :
                el \in InitialElementLists(twopo_bushy_space, edges, numNodes)} :
               edges \in orders}

\* mutant of iiAccepts: a neighbour of any different cost is taken
iiAccepts_AnyCost(new_cost, cheapest) == new_cost # cheapest

\* iiImprove: if( new_cost < cheapest_cost )
iiAccepts(new_cost, cheapest) == new_cost < cheapest

\* mutant of saNewMinimum: every accepted state becomes the minimum
saNewMinimum_Always(cost, minimum) == cost # minimum

\* mutant of saNewMinimum: the minimum of the start is never replaced
saNewMinimum_Never(cost, minimum) == FALSE

\* saPhase: if( improved_cost < min_cost )
saNewMinimum(cost, minimum) == cost < minimum

\* fixed point of saPhase's temperature
TempUnit == 4096

\* saPhase: temperature = twopo_sa_initial_temperature * min_cost
InitialTemperature(cost) == (twopo_sa_initial_temperature * cost * TempUnit) \div 100

\* saPhase: temperature *= twopo_sa_temperature_reduction
ReducedTemperature(t) == (t * twopo_sa_temperature_reduction) \div 100

\* saPhase: while( temperature >= 1 && stage_count < 5 )
NotFrozen(t, stages) == t >= TempUnit /\ stages < 5

\* saProbability: the answers it can give over the draws r = random() % 100.
\* r = 0 is never above (int)(100*e), so TRUE is always possible; FALSE needs
\* (int)(100*e) < 99, that is delta / temperature > ln(100/99), taken as 2/199
saProbability(delta, t) ==
    {TRUE} \cup (IF delta * TempUnit * 199 > 2 * t THEN {FALSE} ELSE {})

\* mutant of iiKeeps: the latest state always replaces min_state
iiKeeps_Latest(i, minimum, cost) == TRUE

\* iiPhase: if( !i || min_cost > improved_state->cost )
iiKeeps(i, minimum, cost) == i = 0 \/ minimum > cost

\* iiPhase: if( !i || min_cost > improved_state->cost ) swap, then i++ and
\* the end of the phase: saPhase or the final buildTree
iiPhaseKeep(candidate, other) ==
    LET keep == iiKeeps(ii_i, min_cost, candidate.cost)
    IN  /\ min_state' = IF keep THEN candidate ELSE min_state
        /\ improved_state' = IF ii_i + 1 >= twopo_ii_stop THEN NoState
                             ELSE IF keep THEN min_state ELSE candidate
        /\ min_cost' = IF keep THEN candidate.cost ELSE min_cost
        /\ ii_i' = ii_i + 1
        /\ ii_costs' = ii_costs \cup {candidate.cost}
        /\ input' = IF ii_i + 1 >= twopo_ii_stop THEN NoState ELSE other
        /\ pc' = IF ii_i + 1 < twopo_ii_stop THEN "ii_restart"
                 ELSE IF twopo_sa_phase THEN "sa_start" ELSE "final"

\* iiPhase loop body up to the call of iiImprove, or all of it when
\* twopo_ii_improve_states is off
iiPhaseMakeInitialState ==
    /\ pc \in {"twopo_edges", "ii_restart"} /\ numNodes > 2
    /\ \E m \in MakeInitialStates(ii_i) :
          IF m.crashes
          THEN /\ pc' = "crashed"
               /\ improved_state' = m.state
               /\ UNCHANGED <<input, ii_i, ii_count, cheapest_cost, min_state, min_cost, ii_costs>>
               /\ UNCHANGED plannerVars
          ELSE IF twopo_ii_improve_states
          THEN /\ input' = m.state
               /\ improved_state' = m.state
               /\ cheapest_cost' = m.state.cost
               /\ ii_count' = 0
               /\ pc' = "ii_improve"
               /\ UNCHANGED <<ii_i, min_state, min_cost, ii_costs>>
               /\ buildTreeBookkeeping
          ELSE /\ iiPhaseKeep(m.state, input)
               /\ UNCHANGED <<ii_count, cheapest_cost>>
               /\ buildTreeBookkeeping
    /\ UNCHANGED <<moveVars, listVars, cacheVars, drawVars, sdpConfVars, sdpVars, hookVars, dpVars, inputVars, graphVars, new_state, result, saVars>>

\* iiImprove: one pass of while( i < local_minimum )
iiImprove ==
    /\ pc = "ii_improve" /\ ii_count < Cardinality(DOMAIN input.elementList)
    /\ \E nb \in neighbordState(adj, noJoin, rows, twopo_bushy_space, improved_state) :
          /\ new_state' = nb.state
          /\ fail' = nb.fail
          /\ tree_built' = nb.built
          /\ IF nb.built /\ ~nb.crashes THEN buildTreeBookkeeping ELSE UNCHANGED plannerVars
          /\ IF nb.crashes
             THEN /\ pc' = "crashed"
                  /\ UNCHANGED <<improved_state, cheapest_cost, ii_count>>
             ELSE IF iiAccepts(nb.state.cost, cheapest_cost)
             THEN /\ improved_state' = nb.state
                  /\ cheapest_cost' = nb.state.cost
                  /\ ii_count' = 0
                  /\ pc' = pc
             ELSE /\ ii_count' = ii_count + 1
                  /\ UNCHANGED <<pc, improved_state, cheapest_cost>>
    /\ UNCHANGED <<listVars, cacheVars, drawVars, sdpConfVars, sdpVars, hookVars, dpVars, inputVars, graphVars,
                   result, input, ii_i, min_state, min_cost, ii_costs, saVars>>

\* iiImprove returns; iiPhase keeps the better state and goes on
iiImproveReturn ==
    /\ pc = "ii_improve" /\ ii_count >= Cardinality(DOMAIN input.elementList)
    /\ iiPhaseKeep(improved_state, input)
    /\ new_state' = NoState
    /\ ii_count' = 0
    /\ cheapest_cost' = COST_UNGENERATED
    /\ UNCHANGED <<moveVars, listVars, cacheVars, drawVars, sdpConfVars, sdpVars, plannerVars, hookVars, dpVars, inputVars, graphVars, result, saVars>>

\* twopo: S0 = min_state; saPhase up to the first test of the frozen condition
saPhaseStart ==
    /\ pc = "sa_start"
    /\ S0' = min_state
    /\ improved_state' = min_state
    /\ improved_cost' = min_state.cost
    /\ temperature' = InitialTemperature(min_state.cost)
    /\ stage_count' = 0
    /\ sa_i' = 0
    /\ min_cost' = min_state.cost
    /\ pc' = IF NotFrozen(temperature', 0) THEN "sa" ELSE "final"
    /\ UNCHANGED <<moveVars, listVars, cacheVars, drawVars, sdpConfVars, sdpVars, plannerVars, hookVars, dpVars, inputVars, graphVars, new_state, result, iiVars, min_state,
                   ii_costs>>

\* saPhase: one pass of for( i=0; i<equilibrium; i++ )
saPhase ==
    /\ pc = "sa" /\ sa_i < twopo_sa_equilibrium * Cardinality(DOMAIN S0.elementList)
    /\ \E nb \in neighbordState(adj, noJoin, rows, twopo_bushy_space, improved_state) :
          /\ fail' = nb.fail
          /\ tree_built' = nb.built
          /\ IF nb.built /\ ~nb.crashes THEN buildTreeBookkeeping ELSE UNCHANGED plannerVars
          /\ IF nb.crashes
             THEN /\ pc' = "crashed"
                  /\ new_state' = nb.state
                  /\ UNCHANGED <<improved_state, improved_cost, min_state, min_cost,
                                 stage_count, sa_i>>
             ELSE LET delta_cost == nb.state.cost - improved_cost
                  IN  \E accept \in (IF delta_cost <= 0 THEN {TRUE}
                                     ELSE saProbability(delta_cost, temperature)) :
                         /\ pc' = pc
                         /\ sa_i' = sa_i + 1
                         /\ IF accept
                            THEN /\ new_state' = improved_state
                                 /\ improved_state' = nb.state
                                 /\ improved_cost' = nb.state.cost
                                 /\ IF saNewMinimum(nb.state.cost, min_cost)
                                    THEN /\ min_state' = nb.state
                                         /\ min_cost' = nb.state.cost
                                         /\ stage_count' = 0
                                    ELSE UNCHANGED <<min_state, min_cost, stage_count>>
                            ELSE /\ new_state' = nb.state
                                 /\ UNCHANGED <<improved_state, improved_cost, min_state,
                                                min_cost, stage_count>>
    /\ UNCHANGED <<listVars, cacheVars, drawVars, sdpConfVars, sdpVars, hookVars, dpVars, inputVars, graphVars,
                   result, iiVars, S0, temperature, ii_costs>>

\* saPhase: the end of a stage: stage_count++, the temperature is reduced,
\* and the frozen condition is tested; on leaving, saPhase destroys
\* improved_state and new_state
saPhaseReduce ==
    /\ pc = "sa" /\ sa_i >= twopo_sa_equilibrium * Cardinality(DOMAIN S0.elementList)
    /\ stage_count' = stage_count + 1
    /\ temperature' = ReducedTemperature(temperature)
    /\ sa_i' = 0
    /\ IF NotFrozen(temperature', stage_count')
       THEN /\ pc' = "sa"
            /\ UNCHANGED <<improved_state, new_state, improved_cost>>
       ELSE /\ pc' = "final"
            /\ improved_state' = NoState
            /\ new_state' = NoState
            /\ improved_cost' = COST_UNGENERATED
    /\ UNCHANGED <<moveVars, listVars, cacheVars, drawVars, sdpConfVars, sdpVars, plannerVars, hookVars, dpVars, inputVars, graphVars, result, iiVars, S0, min_state, min_cost,
                   ii_costs>>

\* twopo: restoreOldContext( essentials ); node = buildTree( min_state );
\* return node->rel
twopoFinal ==
    /\ pc = "final"
    /\ result' = buildTree(noJoin, rows, twopo_bushy_space, min_state.elementList)
    /\ restoreAndBuildBookkeeping
    /\ pc' = "done"
    /\ UNCHANGED <<moveVars, listVars, cacheVars, drawVars, sdpConfVars, sdpVars, hookVars, dpVars, inputVars, graphVars, improved_state, new_state, searchVars>>

InitSearch ==
    /\ pc = "start"
    /\ ljqo_algorithm = "twopo"
    /\ numNodes \in 3 .. MaxSearchNodes
    /\ canJoin \in {cj \in SUBSET Pairs(numNodes) :
                       Len(CreateEdges(numNodes, cj).edgeList) <= MaxEdges}
    /\ noJoin = {}
    /\ rows \in RowsChoices(numNodes)
    /\ twopo_bushy_space \in BOOLEAN
    /\ twopo_heuristic_states \in BOOLEAN
    /\ twopo_ii_stop \in 1 .. MaxRestarts
    /\ twopo_ii_improve_states \in BOOLEAN
    /\ twopo_sa_phase \in BOOLEAN
    /\ twopo_sa_initial_temperature \in {25, 200}
    /\ twopo_sa_temperature_reduction = 50
    /\ twopo_sa_equilibrium = 1
    /\ edgeList = <<>>
    /\ adj = [a \in Nodes(numNodes) |-> [b \in Nodes(numNodes) |-> FALSE]]
    /\ edge_list = <<>>
    /\ IdleState
    /\ IdleDraw
    /\ IdleCache
    /\ IdleList
    /\ IdleDP
    /\ IdleHook
    /\ IdlePlanner
    /\ IdleSdpConf
    /\ IdleSdp

NextSearch ==
    \/ createEdges
    \/ iiPhaseMakeInitialState
    \/ iiImprove
    \/ iiImproveReturn
    \/ saPhaseStart
    \/ saPhase
    \/ saPhaseReduce
    \/ twopoFinal

SpecSearch == InitSearch /\ [][NextSearch]_vars

\* twopo calls with iiImprove on every initial state and without saPhase
InitImprove ==
    /\ InitSearch
    /\ twopo_ii_improve_states
    /\ ~twopo_sa_phase
    /\ twopo_sa_initial_temperature = 25

NextImprove ==
    \/ createEdges
    \/ iiPhaseMakeInitialState
    \/ iiImprove
    \/ iiImproveReturn
    \/ twopoFinal

\* the loop of iiImprove is not left half-way: a pass that can be made, or
\* the return, is made
SpecImprove ==
    InitImprove /\ [][NextImprove]_vars /\ WF_vars(iiImprove) /\ WF_vars(iiImproveReturn)

(* ------- TwoPO without the bookkeeping of costs and temperature ------- *)
(* The States a run can hold: made by makeInitialState at one of the     *)
(* twopo_ii_stop restarts, or by neighbordState from the State held; in  *)
(* the SA phase saProbability can accept any neighbour (draw r = 0).     *)

InitState ==
    /\ pc = "start"
    /\ ljqo_algorithm = "twopo"
    /\ numNodes \in 2 .. MaxNodes
    /\ canJoin \in {cj \in SUBSET Pairs(numNodes) :
                       Len(CreateEdges(numNodes, cj).edgeList) <= MaxEdges}
    /\ noJoin = {}
    /\ rows \in RowsChoices(numNodes)
    /\ twopo_bushy_space \in BOOLEAN
    /\ twopo_heuristic_states \in BOOLEAN
    /\ twopo_ii_stop \in 1 .. MaxRestarts
    /\ twopo_ii_improve_states = FALSE
    /\ twopo_sa_phase \in BOOLEAN
    /\ twopo_sa_initial_temperature = 200
    /\ twopo_sa_temperature_reduction = 50
    /\ twopo_sa_equilibrium = 1
    /\ edgeList = <<>>
    /\ adj = [a \in Nodes(numNodes) |-> [b \in Nodes(numNodes) |-> FALSE]]
    /\ edge_list = <<>>
    /\ IdleState
    /\ IdleDraw
    /\ IdleCache
    /\ IdleList
    /\ IdleDP
    /\ IdleHook
    /\ IdlePlanner
    /\ IdleSdpConf
    /\ IdleSdp

\* twopo() with two relations: they are joined at once
twopoTwoNodes ==
    /\ pc = "twopo_edges" /\ numNodes = 2
    /\ result' = joinNodes(noJoin, rows, BaseNode(rows, 0), BaseNode(rows, 1))
    /\ pc' = IF result'.relids = NULL THEN "crashed" ELSE "done"
    /\ IF result'.relids = NULL THEN UNCHANGED plannerVars ELSE buildTreeBookkeeping
    /\ UNCHANGED <<moveVars, listVars, cacheVars, drawVars, sdpConfVars, sdpVars, hookVars, dpVars, inputVars, graphVars, improved_state, new_state, searchVars>>

\* iiPhase: improved_state = makeInitialState(improved_state, essentials, i)
makeInitialState ==
    /\ pc \in {"twopo_edges", "built"} /\ numNodes > 2
    /\ ii_i < twopo_ii_stop
    /\ \E m \in MakeInitialStates(ii_i) :
          /\ improved_state' = m.state
          /\ pc' = IF m.crashes THEN "crashed" ELSE "built"
          /\ IF m.crashes THEN UNCHANGED plannerVars ELSE buildTreeBookkeeping
    /\ ii_i' = ii_i + 1
    /\ UNCHANGED <<moveVars, listVars, cacheVars, drawVars, sdpConfVars, sdpVars, hookVars, dpVars, inputVars, graphVars, new_state, result, input, ii_count,
                   cheapest_cost, saVars, min_state, min_cost, ii_costs>>

\* saPhase: new_state = neighbordState(new_state, improved_state), accepted:
\* swapValues(State*, new_state, improved_state)
neighbordStateAccepted ==
    /\ pc = "built" /\ twopo_sa_phase
    /\ \E nb \in neighbordState(adj, noJoin, rows, twopo_bushy_space, improved_state) :
          /\ improved_state' = nb.state
          /\ pc' = IF nb.crashes THEN "crashed" ELSE "built"
          /\ IF nb.built /\ ~nb.crashes THEN buildTreeBookkeeping ELSE UNCHANGED plannerVars
    /\ new_state' = improved_state
    /\ UNCHANGED <<moveVars, listVars, cacheVars, drawVars, sdpConfVars, sdpVars, hookVars, dpVars, inputVars, graphVars, result, searchVars>>

\* twopo(): the State held is the one the phases end with; it is built once
\* more outside the temporary context and its relation is returned
twopoReturn ==
    /\ pc = "built"
    /\ result' = buildTree(noJoin, rows, twopo_bushy_space, improved_state.elementList)
    /\ restoreAndBuildBookkeeping
    /\ pc' = "done"
    /\ UNCHANGED <<moveVars, listVars, cacheVars, drawVars, sdpConfVars, sdpVars, hookVars, dpVars, inputVars, graphVars, improved_state, new_state, searchVars>>

NextState ==
    \/ createEdges
    \/ twopoTwoNodes
    \/ makeInitialState
    \/ neighbordStateAccepted
    \/ twopoReturn

SpecState == InitState /\ [][NextState]_vars

(* ============ TwoPO: the passes of the bushy neighbour move =========== *)

InitBushyMove ==
    /\ pc = "start"
    /\ ljqo_algorithm = "twopo"
    /\ numNodes \in 3 .. MaxNodes
    /\ canJoin \in {cj \in SUBSET Pairs(numNodes) :
                       Len(CreateEdges(numNodes, cj).edgeList) <= MaxEdges}
    /\ noJoin = {}
    /\ rows = [u \in Nodes(numNodes) |-> u + 1]
    /\ twopo_bushy_space = TRUE
    /\ twopo_heuristic_states \in BOOLEAN
    /\ twopo_ii_stop = 1
    /\ twopo_ii_improve_states = FALSE
    /\ twopo_sa_phase = TRUE
    /\ twopo_sa_initial_temperature = 200
    /\ twopo_sa_temperature_reduction = 50
    /\ twopo_sa_equilibrium = 1
    /\ edgeList = <<>>
    /\ adj = [a \in Nodes(numNodes) |-> [b \in Nodes(numNodes) |-> FALSE]]
    /\ edge_list = <<>>
    /\ IdleState
    /\ IdleDraw
    /\ IdleCache
    /\ IdleList
    /\ IdleDP
    /\ IdleHook
    /\ IdlePlanner
    /\ IdleSdpConf
    /\ IdleSdp

\* neighbordStateBushy up to its loop: output = copyState(output,input)
neighbordStateBushyCopy ==
    /\ pc = "built" /\ twopo_bushy_space
    /\ new_state' = improved_state
    /\ pc' = "nb_bushy"
    /\ UNCHANGED <<moveVars, listVars, cacheVars, drawVars, sdpConfVars, sdpVars, hookVars, dpVars, inputVars, graphVars,
                   improved_state, result, searchVars, plannerVars>>

\* one pass of while( !ok ) with the drawn join element r: a pass that
\* finds no legal swap leaves output as it is and the loop goes on; after a
\* swap neighbordStateBushy returns output
neighbordStateBushyPass ==
    /\ pc = "nb_bushy"
    /\ \E r \in DOMAIN new_state.elementList :
          LET t == TryJoinElement(adj, new_state.elementList, r)
          IN  IF t.ok
              THEN /\ new_state' = MakeState(t.elementList, new_state.cost)
                   /\ pc' = "nb_returned"
              ELSE UNCHANGED <<pc, new_state>>
    /\ UNCHANGED <<moveVars, listVars, cacheVars, drawVars, sdpConfVars, sdpVars, hookVars, dpVars, inputVars, graphVars,
                   improved_state, result, searchVars, plannerVars>>

\* neighbordState after neighbordStateBushy: buildTree( output ), and the
\* caller takes the new State for the current one
neighbordStateBuildTree ==
    /\ pc = "nb_returned"
    /\ improved_state' = Built(noJoin, rows, TRUE, new_state.elementList)
    /\ new_state' = improved_state
    /\ pc' = IF BuildCrashes(noJoin, rows, TRUE, new_state.elementList)
             THEN "crashed" ELSE "built"
    /\ IF BuildCrashes(noJoin, rows, TRUE, new_state.elementList)
       THEN UNCHANGED plannerVars ELSE buildTreeBookkeeping
    /\ UNCHANGED <<moveVars, listVars, cacheVars, drawVars, sdpConfVars, sdpVars, hookVars, dpVars, inputVars, graphVars,
                   result, searchVars>>

NextBushyMove ==
    \/ createEdges
    \/ makeInitialState
    \/ neighbordStateBushyCopy
    \/ neighbordStateBushyPass
    \/ neighbordStateBuildTree

\* random() draws every join element again and again: a pass that can
\* swap is not put off for ever
SpecBushyMove == InitBushyMove /\ [][NextBushyMove]_vars /\ WF_vars(neighbordStateBushyPass)

(* ------------------- TwoPO: joinNodes with the plan cache -------------- *)

\* a treeNode is told from the others by where it lies: <<u>> is
\* nodeList[u], <<inner_child, outer_child, a>> the node joinNodes allocated
\* for the two children after a resets of the temporary context
NodeOfUnit(u) == <<u>>

\* node->rel->relids
RECURSIVE NodeRelids(_)
NodeRelids(node) ==
    IF Len(node) = 1 THEN {node[1]} ELSE NodeRelids(node[1]) \cup NodeRelids(node[2])

\* nodeCost: the total cost of the cheapest path of the relation of a set,
\* a base relation or a join relation of root->join_rel_list
RelCost(rw, rels, s) ==
    IF Cardinality(s) = 1 THEN rw[CHOOSE u \in s : TRUE]
    ELSE (CHOOSE x \in rels : x.relids = s).cost

\* node->rel as JoinPathCost reads it
RelOfNode(rw, rels, node) ==
    [relids |-> NodeRelids(node), cost |-> RelCost(rw, rels, NodeRelids(node))]

\* mutant of CacheHits: a parent is taken whatever its other child is
CacheHits_AnyParent(par, inner_node, outer_node) ==
    {pr[2] : pr \in {x \in par : x[1] = inner_node}}

\* joinNodes: foreach( x, inner_node->parents ) if( node->inner_child ==
\* outer_node || node->outer_child == outer_node )
CacheHits(par, inner_node, outer_node) ==
    {pr[2] : pr \in {x \in par : x[1] = inner_node /\
                                 (x[2][1] = outer_node \/ x[2][2] = outer_node)}}

\* joinNodes with TWOPO_CACHE_PLANS compiled in (every join is accepted).
\* st holds root->join_rel_list (rels), the parents lists (par), the nodes
\* taken from them (hits), the resets so far (arena) and twopo_cache_plans
\* (cache); the node returned is st.node.  make_join_rel finds the join
\* relation of the set when the list has it and adds the paths of the pair
\* to it, and set_cheapest keeps the cheapest path of all
joinNodesCached(rw, st, inner_node, outer_node) ==
    LET found == CacheHits(st.par, inner_node, outer_node)
    IN  IF found # {}
        THEN [st EXCEPT !.node = CHOOSE x \in found : TRUE,
                        !.hits = @ \cup {[node |-> x, inner |-> inner_node,
                                          outer |-> outer_node, arena |-> st.arena] :
                                         x \in {CHOOSE y \in found : TRUE}}]
        ELSE LET s    == NodeRelids(inner_node) \cup NodeRelids(outer_node)
                 c    == JoinPathCost(rw, RelOfNode(rw, st.rels, inner_node),
                                      RelOfNode(rw, st.rels, outer_node))
                 old  == {x \in st.rels : x.relids = s}
                 best == IF \E x \in old : x.cost < c
                         THEN (CHOOSE x \in old : TRUE).cost ELSE c
                 new_node == <<inner_node, outer_node, st.arena>>
             IN  [st EXCEPT !.node = new_node,
                            !.rels = (@ \ old) \cup {[relids |-> s, cost |-> best]},
                            !.par = IF st.cache
                                    THEN @ \cup {<<inner_node, new_node>>,
                                                 <<outer_node, new_node>>}
                                    ELSE @]

\* joinSubplans with the plan cache
RECURSIVE joinSubplansCached(_, _, _, _)
joinSubplansCached(rw, st, el, joinIndex) ==
    IF ~isJoinIndex(joinIndex) THEN [st EXCEPT !.node = NodeOfUnit(joinIndex)]
    ELSE LET idx  == convertIndex(joinIndex)
             sub0 == joinSubplansCached(rw, st, el, el[idx].child[0])
             sub1 == joinSubplansCached(rw, sub0, el, el[idx].child[1])
         IN  joinNodesCached(rw, sub1, sub0.node, sub1.node)

\* buildLeftDeepTree with the plan cache, from position i
RECURSIVE buildLeftDeepCached(_, _, _, _)
buildLeftDeepCached(rw, st, el, i) ==
    IF i \notin DOMAIN el THEN st
    ELSE buildLeftDeepCached(rw, joinNodesCached(rw, st, st.node, NodeOfUnit(el[i].rel)),
                             el, i + 1)

\* resetTemporaryContext / restoreOldContext on the cache: the join
\* relations made in the context leave root->join_rel_list, the parents of
\* every node of nodeList become NULL, and the nodes allocated from now on
\* are new ones
CacheCleared(st) ==
    [st EXCEPT !.rels = {}, !.par = {x \in @ : Len(x[1]) # 1}, !.arena = @ + 1]

\* the cache and the join relations as the variables hold them
TheCache ==
    [rels |-> root_rels, par |-> parents, hits |-> reused, arena |-> arena,
     cache |-> twopo_cache_plans, node |-> <<>>]

\* buildTree after its reset: buildBushyTree or buildLeftDeepTree
buildStateCached(rw, bushy, st, el) ==
    IF bushy THEN joinSubplansCached(rw, st, el, buildBushyLoop(el, 0, {}, 0))
    ELSE buildLeftDeepCached(rw, [st EXCEPT !.node = NodeOfUnit(el[0].rel)], el, 1)

\* buildTree with TWOPO_CACHE_PLANS compiled in: if( !twopo_cache_plans ||
\* contextSizeIsExcedded(...) ) resetTemporaryContext(...), then the tree
buildTreeCached(rw, bushy, st, el, exceeded) ==
    buildStateCached(rw, bushy, IF ~st.cache \/ exceeded THEN CacheCleared(st) ELSE st, el)

SetCache(st) ==
    /\ root_rels' = st.rels
    /\ parents' = st.par
    /\ reused' = st.hits
    /\ arena' = st.arena

\* a call of twopo with the plan cache compiled in, random initial states
InitCache ==
    /\ pc = "start"
    /\ ljqo_algorithm = "twopo"
    /\ numNodes \in 3 .. MaxSearchNodes
    /\ canJoin \in {cj \in SUBSET Pairs(numNodes) :
                       Len(CreateEdges(numNodes, cj).edgeList) <= MaxEdges}
    /\ noJoin = {}
    /\ rows \in RowsChoices(numNodes)
    /\ twopo_bushy_space \in BOOLEAN
    /\ twopo_heuristic_states = FALSE
    /\ twopo_ii_stop \in 1 .. MaxRestarts
    /\ twopo_ii_improve_states = FALSE
    /\ twopo_sa_phase = FALSE
    /\ twopo_sa_initial_temperature = 200
    /\ twopo_sa_temperature_reduction = 50
    /\ twopo_sa_equilibrium = 1
    /\ edgeList = <<>>
    /\ adj = [a \in Nodes(numNodes) |-> [b \in Nodes(numNodes) |-> FALSE]]
    /\ edge_list = <<>>
    /\ IdleState
    /\ IdleDraw
    /\ IdleList
    /\ IdleDP
    /\ IdleHook
    /\ IdlePlanner
    /\ IdleSdpConf
    /\ IdleSdp
    /\ twopo_cache_plans \in BOOLEAN
    /\ arena = 0
    /\ root_rels = {}
    /\ parents = {}
    /\ reused = {}

\* iiPhase: improved_state = makeInitialState(...), whose buildTree sets
\* the cost of the State; the context is over its size or not
makeInitialStateCached ==
    /\ pc \in {"twopo_edges", "built"} /\ numNodes > 2
    /\ ii_i < twopo_ii_stop
    /\ \E edges \in randomState(edgeList) :
       \E el \in InitialElementLists(twopo_bushy_space, edges, numNodes) :
       \E exceeded \in BOOLEAN :
          IF BuildCrashes(noJoin, rows, twopo_bushy_space, el)
          THEN /\ pc' = "crashed"
               /\ improved_state' = MakeState(el, COST_UNGENERATED)
               /\ UNCHANGED <<arena, root_rels, parents, reused>>
          ELSE LET st == buildTreeCached(rows, twopo_bushy_space, TheCache, el, exceeded)
               IN  /\ pc' = "built"
                   /\ improved_state' = MakeState(el, RelCost(rows, st.rels,
                                                              NodeRelids(st.node)))
                   /\ SetCache(st)
    /\ ii_i' = ii_i + 1
    /\ UNCHANGED <<listVars, moveVars, drawVars, sdpConfVars, sdpVars, hookVars, dpVars, inputVars,
                   graphVars, plannerVars, new_state, result, input, ii_count,
                   cheapest_cost, saVars, min_state, min_cost, ii_costs, twopo_cache_plans>>

\* twopo: restoreOldContext and the final buildTree of the State held,
\* outside the temporary context (its resetTemporaryContext finds no ctx
\* and returns)
twopoReturnCached ==
    /\ pc = "built" /\ ii_i >= twopo_ii_stop
    /\ LET st == buildStateCached(rows, twopo_bushy_space, CacheCleared(TheCache),
                                  improved_state.elementList)
       IN  /\ result' = RelOfNode(rows, st.rels, st.node)
           /\ SetCache(st)
    /\ pc' = "done"
    /\ UNCHANGED <<listVars, moveVars, drawVars, sdpConfVars, sdpVars, hookVars, dpVars, inputVars,
                   graphVars, plannerVars, improved_state, new_state, searchVars,
                   twopo_cache_plans>>

NextCache == createEdges \/ makeInitialStateCached \/ twopoReturnCached

SpecCache == InitCache /\ [][NextCache]_vars

(* ------------------- TwoPO: the draw of saProbability ------------------ *)

\* saProbability: (int)(100.0*e) with e = exp( - delta / temperature ), for
\* the delta > 0 and temperature >= 1 saPhase calls it with
Percents == 0 .. 100

\* saProbability: r = random() % 100
Draws == 0 .. 99

\* saProbability: return r <= ((int)(100.0*e))
saProbabilityReturns(draw, percent) == draw <= percent

\* a call of saProbability, after e was computed
InitDraw ==
    /\ pc = "sa_probability"
    /\ ljqo_algorithm = "twopo"
    /\ numNodes = 2
    /\ canJoin = Pairs(numNodes)
    /\ noJoin = {}
    /\ rows = [u \in Nodes(numNodes) |-> u + 1]
    /\ twopo_bushy_space = TRUE
    /\ twopo_heuristic_states = TRUE
    /\ NoSearch
    /\ edgeList = <<>>
    /\ adj = [a \in Nodes(numNodes) |-> [b \in Nodes(numNodes) |-> FALSE]]
    /\ edge_list = <<>>
    /\ IdleState
    /\ IdleDP
    /\ IdleHook
    /\ IdlePlanner
    /\ IdleSdpConf
    /\ IdleSdp
    /\ IdleCache
    /\ IdleList
    /\ sa_e \in Percents
    /\ sa_r = -1
    /\ sa_accepted = FALSE

\* saProbability: the draw and the answer
saProbabilityDraw ==
    /\ pc = "sa_probability"
    /\ sa_r' \in Draws
    /\ sa_accepted' = saProbabilityReturns(sa_r', sa_e)
    /\ pc' = "sa_probability_done"
    /\ UNCHANGED <<sa_e, inputVars, graphVars, stateVars, searchVars, dpVars, hookVars,
                   plannerVars, sdpConfVars, sdpVars, moveVars, cacheVars, listVars>>

NextDraw == saProbabilityDraw

SpecDraw == InitDraw /\ [][NextDraw]_vars

(* ========================= TwoPO: twopoList =========================== *)

\* the elements a list is filled with at most
MaxListSize == 3

DEFAULT_BUFFER_SIZE == 30

\* the values listAdd is called with
ListValues == 1 .. 2

\* a cell of a buffer palloc returned and nothing has written yet
Unwritten == 0

\* resizeBuffer: a new buffer of buffersize cells, the list->size elements
\* copied into it
resizeBuffer(list, buffersize) ==
    [list EXCEPT !.buffer = [k \in 1 .. buffersize |->
                                IF k <= list.size THEN list.buffer[k] ELSE Unwritten],
                 !.buffersize = buffersize]

\* listCreate
listCreate(initialbuffersize) ==
    LET created == [allocated |-> TRUE, size |-> 0, buffersize |-> 0, buffer |-> <<>>]
    IN  IF initialbuffersize # 0 THEN resizeBuffer(created, initialbuffersize) ELSE created

\* listSize
listSize(list) == list.size

\* listGetElement: the cell at index (the Assert on index compiled out)
listGetElement(list, index) == list.buffer[index + 1]

\* listAdd
listAdd(list, value) ==
    LET grown == IF list.buffersize = 0 THEN resizeBuffer(list, DEFAULT_BUFFER_SIZE)
                 ELSE IF list.size >= list.buffersize THEN resizeBuffer(list, list.size * 2)
                 ELSE list
    IN  [grown EXCEPT !.buffer[grown.size + 1] = value, !.size = grown.size + 1]

\* memcpy(dest->buffer, src->buffer, n cells)
memcpy(to, from, n) == [k \in DOMAIN to |-> IF k <= n THEN from[k] ELSE to[k]]

\* listCopy
listCopy(dest, src) ==
    LET target == IF ~dest.allocated THEN listCreate(src.size)
                  ELSE IF dest.buffersize < src.size THEN resizeBuffer(dest, src.size)
                  ELSE dest
    IN  IF src.size # 0
        THEN [target EXCEPT !.buffer = memcpy(target.buffer, src.buffer, src.size)]
        ELSE target

\* a source list was created; no destination list yet
InitList ==
    /\ pc = "lists"
    /\ ljqo_algorithm = "twopo"
    /\ numNodes = 2
    /\ canJoin = Pairs(numNodes)
    /\ noJoin = {}
    /\ rows = [u \in Nodes(numNodes) |-> u + 1]
    /\ twopo_bushy_space = TRUE
    /\ twopo_heuristic_states = TRUE
    /\ NoSearch
    /\ edgeList = <<>>
    /\ adj = [a \in Nodes(numNodes) |-> [b \in Nodes(numNodes) |-> FALSE]]
    /\ edge_list = <<>>
    /\ IdleState
    /\ IdleDraw
    /\ IdleDP
    /\ IdleHook
    /\ IdlePlanner
    /\ IdleSdpConf
    /\ IdleSdp
    /\ IdleCache
    /\ src_list \in {listCreate(n) : n \in 0 .. MaxListSize}
    /\ dest_list = NullList

\* listAdd(src, &value)
listAddSrc ==
    /\ pc = "lists" /\ listSize(src_list) < MaxListSize
    /\ \E value \in ListValues : src_list' = listAdd(src_list, value)
    /\ UNCHANGED <<pc, dest_list, inputVars, graphVars, stateVars, searchVars, dpVars, hookVars,
                   plannerVars, sdpConfVars, sdpVars, moveVars, drawVars, cacheVars>>

\* dest = listCreate(elementsize, initialbuffersize, context)
listCreateDest ==
    /\ pc = "lists" /\ ~dest_list.allocated
    /\ \E n \in 0 .. MaxListSize : dest_list' = listCreate(n)
    /\ UNCHANGED <<pc, src_list, inputVars, graphVars, stateVars, searchVars, dpVars, hookVars,
                   plannerVars, sdpConfVars, sdpVars, moveVars, drawVars, cacheVars>>

\* listAdd(dest, &value)
listAddDest ==
    /\ pc = "lists" /\ dest_list.allocated /\ listSize(dest_list) < MaxListSize
    /\ \E value \in ListValues : dest_list' = listAdd(dest_list, value)
    /\ UNCHANGED <<pc, src_list, inputVars, graphVars, stateVars, searchVars, dpVars, hookVars,
                   plannerVars, sdpConfVars, sdpVars, moveVars, drawVars, cacheVars>>

\* dest = listCopy(dest, src), with dest NULL or a list
listCopyCall ==
    /\ pc = "lists"
    /\ dest_list' = listCopy(dest_list, src_list)
    /\ pc' = "list_copied"
    /\ UNCHANGED <<src_list, inputVars, graphVars, stateVars, searchVars, dpVars, hookVars,
                   plannerVars, sdpConfVars, sdpVars, moveVars, drawVars, cacheVars>>

NextList == listAddSrc \/ listCreateDest \/ listAddDest \/ listCopyCall

SpecList == InitList /\ [][NextList]_vars

(* ========================= SDP: the DP phase ========================== *)

\* the sequences s_phase can return: every relation once
Sequences(n) == {sq \in [1 .. n -> Nodes(n)] : \A i, j \in 1 .. n : sq[i] = sq[j] => i = j}

\* mutant of SplitIndexes: only the split that leaves one relation on the right
SplitIndexes_LastOnly(lv) == {lv - 1}

\* dp_phase: for( i=level-1; i>=0; i-- )
SplitIndexes(lv) == 0 .. (lv - 1)

\* mutant of CellPairs: rel2 is always the last relation of the range
CellPairs_LastRelation(mx, lv, pos) ==
    {<<mx[i][pos], mx[0][pos + lv]>> : i \in SplitIndexes(lv)}

\* dp_phase: rel1 = matrix[i][p], rel2 = matrix[level-i-1][p+i+1] for every i
CellPairs(mx, lv, pos) ==
    {<<mx[i][pos], mx[lv - i - 1][pos + i + 1]>> : i \in SplitIndexes(lv)}

\* dp_phase: if( rel1 && rel2 ): the pairs make_join_rel is called for
AttemptedPairs(mx, lv, pos) ==
    {pr \in CellPairs(mx, lv, pos) : pr[1] # NullNode /\ pr[2] # NullNode}

\* dp_phase: the joins the loop over i adds to matrix[level][p]:
\* rel1 = matrix[i][p], rel2 = matrix[level-i-1][p+i+1], both built and
\* accepted by make_join_rel
CellJoins(nj, rw, mx, lv, pos) ==
    {joinNodes(nj, rw, pr[1], pr[2]) : pr \in AttemptedPairs(mx, lv, pos)} \ {NullNode}

\* make_join_rel adds the paths of every pair to the one join relation of
\* the set, and set_cheapest keeps the cheapest of them
set_cheapest(joins) ==
    IF joins = {} THEN NullNode
    ELSE CHOOSE j \in joins : \A k \in joins : j.cost <= k.cost

\* the planner's refusals tried with the DP phase: none, the join of all
\* relations, the join of relations 0 and 1
DpNoJoinChoices(n) == {{}, {{Nodes(n)}}, {{{0, 1}}}}

InitDP ==
    /\ pc = "dp_start"
    /\ ljqo_algorithm = "sdp"
    /\ numNodes \in 2 .. MaxRels
    /\ canJoin = {}
    /\ noJoin \in DpNoJoinChoices(numNodes)
    /\ rows \in RowsChoices(numNodes)
    /\ twopo_bushy_space = TRUE
    /\ twopo_heuristic_states = TRUE
    /\ NoSearch
    /\ edgeList = <<>>
    /\ adj = [a \in Nodes(numNodes) |-> [b \in Nodes(numNodes) |-> FALSE]]
    /\ edge_list = <<>>
    /\ IdleState
    /\ IdleDraw
    /\ IdleCache
    /\ IdleList
    /\ IdleHook
    /\ IdlePlanner
    /\ IdleSdpConf
    /\ IdleSdp
    /\ sequence \in Sequences(numNodes)
    /\ matrix = [lv \in 0 .. (numNodes - 1) |-> [pos \in 0 .. (numNodes - lv - 1) |-> NullNode]]
    /\ level = 0
    /\ p = 0
    /\ attempted = {}

\* dp_phase, level 0: matrix[0] = sequence
dp_phaseLevel0 ==
    /\ pc = "dp_start"
    /\ matrix' = [matrix EXCEPT ![0] = [pos \in 0 .. (numNodes - 1) |->
                                          BaseNode(rows, sequence[pos + 1])]]
    /\ level' = 1
    /\ p' = 0
    /\ pc' = "dp"
    /\ UNCHANGED <<moveVars, listVars, cacheVars, drawVars, sdpConfVars, sdpVars, plannerVars, hookVars, sequence, attempted, inputVars, graphVars, stateVars, searchVars>>

\* dp_phase: one pass of for( p=0; p < nrels -level; p++ ), with the step to
\* the next level after the last one; the join relation of the cell, when
\* there is one, is new in join_rel_list
dp_phaseCell ==
    /\ pc = "dp" /\ level < numNodes
    /\ matrix' = [matrix EXCEPT ![level][p] =
                     set_cheapest(CellJoins(noJoin, rows, matrix, level, p))]
    /\ attempted' = attempted \cup {<<pr[1].relids, pr[2].relids>> :
                                       pr \in AttemptedPairs(matrix, level, p)}
    /\ IF p + 1 < numNodes - level
       THEN /\ p' = p + 1
            /\ level' = level
       ELSE /\ p' = 0
            /\ level' = level + 1
    /\ pc' = pc
    /\ SetPlanner(AddJoinRels(ThePlanner, IF matrix'[level][p] = NullNode THEN 0 ELSE 1,
                              at_entry.hash # "NULL"))
    /\ UNCHANGED <<save_root_join_rel, at_entry, after_restore, ctx_created, ctx_deleted,
                   ctx_resets, reset_outside>>
    /\ UNCHANGED <<moveVars, listVars, cacheVars, drawVars, sdpConfVars, sdpVars, hookVars, sequence, inputVars, graphVars, stateVars, searchVars>>

\* mutant of DpFails: any empty cell is fatal
DpFails_AnyCell(mx, n) ==
    \E lv \in 1 .. (n - 1) : \E pos \in 0 .. (n - lv - 1) : mx[lv][pos] = NullNode

\* dp_phase: if( !matrix[nrels-1][0] ) elog(ERROR, ...)
DpFails(mx, n) == mx[n - 1][0] = NullNode

\* dp_phase after the loops: elog(ERROR) without a complete plan, otherwise
\* ret = matrix[nrels-1][0]
dp_phaseReturn ==
    /\ pc = "dp" /\ level >= numNodes
    /\ IF DpFails(matrix, numNodes)
       THEN /\ pc' = "sdp_error"
            /\ UNCHANGED result
       ELSE /\ pc' = "dp_done"
            /\ result' = matrix[numNodes - 1][0]
    /\ UNCHANGED <<moveVars, listVars, cacheVars, drawVars, sdpConfVars, sdpVars, plannerVars, hookVars, dpVars, inputVars, graphVars, improved_state, new_state, searchVars>>

NextDP == dp_phaseLevel0 \/ dp_phaseCell \/ dp_phaseReturn

SpecDP == InitDP /\ [][NextDP]_vars

(* ----------- SDP: the DP phase as the earlier dp_phase has it ---------- *)

\* refusals tried with the earlier dp_phase: those of DpNoJoinChoices and
\* the join of {0, 1} with {2}
EarlierDpNoJoinChoices(n) == DpNoJoinChoices(n) \cup {{{{0, 1}, {2}}}}

\* earlier dp_phase: the splits i with if( rel1 && rel2 )
TriedSplits(mx, lv, pos) ==
    {i \in SplitIndexes(lv) : mx[i][pos] # NullNode /\ mx[lv - i - 1][pos + i + 1] # NullNode}

\* the largest member of a non-empty set of split indexes
LastOf(splits) == CHOOSE i \in splits : \A k \in splits : k <= i

\* earlier dp_phase: for( i=0; i<level; i++ ) if( rel1 && rel2 )
\* matrix[level][p] = make_join_rel(root, rel1, rel2): the cell holds what
\* the last split tried gave, the join relation of the set with the paths of
\* every accepted pair, or NULL
CellOverwritten(nj, rw, mx, lv, pos) ==
    LET tried == TriedSplits(mx, lv, pos)
    IN  IF tried = {} THEN NullNode
        ELSE LET i == LastOf(tried)
             IN  IF joinNodes(nj, rw, mx[i][pos], mx[lv - i - 1][pos + i + 1]) = NullNode
                 THEN NullNode
                 ELSE set_cheapest(CellJoins(nj, rw, mx, lv, pos))

InitDPEarlier ==
    /\ pc = "dp_start"
    /\ ljqo_algorithm = "sdp"
    /\ numNodes \in 2 .. MaxNodes
    /\ canJoin = {}
    /\ noJoin \in EarlierDpNoJoinChoices(numNodes)
    /\ rows \in RowsChoices(numNodes)
    /\ twopo_bushy_space = TRUE
    /\ twopo_heuristic_states = TRUE
    /\ NoSearch
    /\ edgeList = <<>>
    /\ adj = [a \in Nodes(numNodes) |-> [b \in Nodes(numNodes) |-> FALSE]]
    /\ edge_list = <<>>
    /\ IdleState
    /\ IdleDraw
    /\ IdleCache
    /\ IdleList
    /\ IdleHook
    /\ IdlePlanner
    /\ IdleSdpConf
    /\ IdleSdp
    /\ sequence \in Sequences(numNodes)
    /\ matrix = [lv \in 0 .. (numNodes - 1) |-> [pos \in 0 .. (numNodes - lv - 1) |-> NullNode]]
    /\ level = 0
    /\ p = 0
    /\ attempted = {}

\* earlier dp_phase: one pass of for( p=0; p < nrels -level; p++ ), with the
\* step to the next level after the last one
dp_phaseCellEarlier ==
    /\ pc = "dp" /\ level < numNodes
    /\ matrix' = [matrix EXCEPT ![level][p] = CellOverwritten(noJoin, rows, matrix, level, p)]
    /\ attempted' = attempted \cup {<<pr[1].relids, pr[2].relids>> :
                                       pr \in AttemptedPairs(matrix, level, p)}
    /\ IF p + 1 < numNodes - level
       THEN /\ p' = p + 1
            /\ level' = level
       ELSE /\ p' = 0
            /\ level' = level + 1
    /\ pc' = pc
    /\ SetPlanner(AddJoinRels(ThePlanner,
                              IF CellJoins(noJoin, rows, matrix, level, p) = {} THEN 0 ELSE 1,
                              at_entry.hash # "NULL"))
    /\ UNCHANGED <<save_root_join_rel, at_entry, after_restore, ctx_created, ctx_deleted,
                   ctx_resets, reset_outside>>
    /\ UNCHANGED <<moveVars, listVars, cacheVars, drawVars, sdpConfVars, sdpVars, hookVars, sequence, inputVars, graphVars, stateVars, searchVars>>

NextDPEarlier == dp_phaseLevel0 \/ dp_phaseCellEarlier \/ dp_phaseReturn

SpecDPEarlier == InitDPEarlier /\ [][NextDPEarlier]_vars

(* ============ TwoPO when the planner refuses some joins =============== *)

\* a twopo call in which make_join_rel may return NULL for one relation set
InitRefusal ==
    /\ pc = "start"
    /\ ljqo_algorithm = "twopo"
    /\ numNodes \in 3 .. MaxSearchNodes
    /\ canJoin \in {cj \in SUBSET Pairs(numNodes) :
                       Len(CreateEdges(numNodes, cj).edgeList) <= MaxEdges}
    /\ noJoin \in NoJoinChoices(numNodes)
    /\ rows = [u \in Nodes(numNodes) |-> u + 1]
    /\ twopo_bushy_space \in BOOLEAN
    /\ twopo_heuristic_states \in BOOLEAN
    /\ twopo_ii_stop = 1
    /\ twopo_ii_improve_states = TRUE
    /\ twopo_sa_phase = TRUE
    /\ twopo_sa_initial_temperature = 25
    /\ twopo_sa_temperature_reduction = 50
    /\ twopo_sa_equilibrium = 1
    /\ edgeList = <<>>
    /\ adj = [a \in Nodes(numNodes) |-> [b \in Nodes(numNodes) |-> FALSE]]
    /\ edge_list = <<>>
    /\ IdleState
    /\ IdleDraw
    /\ IdleCache
    /\ IdleList
    /\ IdleDP
    /\ IdleHook
    /\ IdlePlanner
    /\ IdleSdpConf
    /\ IdleSdp

SpecRefusal == InitRefusal /\ [][NextSearch]_vars

(* ============== TwoPO with and without the convergence hook =========== *)
(* Two runs on the same input with the same random draws: improved_state, *)
(* result and opte belong to the run with the hook registered,            *)
(* unhooked_state and unhooked_result to the run with essentials->opte    *)
(* NULL.                                                                  *)

\* opteInit
opteInit == [registered |-> TRUE, plan_count |-> 0, plan_min_cost |-> 0]

\* opteConvergence
opteConvergence(data, generated_cost) ==
    IF ~data.registered \/ generated_cost <= 0 THEN data
    ELSE [data EXCEPT !.plan_count = @ + 1,
                      !.plan_min_cost = IF @ <= 0 \/ @ > generated_cost
                                        THEN generated_cost ELSE @]

\* mutant of buildTreeHooked: the cost of the state is read back from the hook
buildTreeHooked_ReadsHook(nj, rw, bushy, el, data) ==
    LET d == opteConvergence(data, Built(nj, rw, bushy, el).cost)
    IN  [state |-> IF d.registered THEN MakeState(el, d.plan_min_cost)
                   ELSE Built(nj, rw, bushy, el),
         opte  |-> d]

\* buildTree: state->cost = nodeCost(result); OPTE_CONVERG( opte, state->cost )
buildTreeHooked(nj, rw, bushy, el, data) ==
    [state |-> Built(nj, rw, bushy, el),
     opte  |-> opteConvergence(data, Built(nj, rw, bushy, el).cost)]

\* the draws of one neighbordState call: the join element of a bushy State,
\* or the method and the position of a left-deep move
NeighbourDraws(bushy, n) ==
    IF bushy THEN {<<TRUE, r>> : r \in 0 .. (n - 2)}
    ELSE {<<TRUE, idx>> : idx \in 0 .. (n - 2)} \cup {<<FALSE, idx>> : idx \in 0 .. (n - 3)}

\* neighbordStateBushy (one pass of its loop) / neighbordStateLeftDeep with
\* the given draw
neighbordStateDrawn(aj, bushy, el, draw) ==
    IF bushy
    THEN LET t == TryJoinElement(aj, el, draw[2])
         IN  [fail |-> ~t.ok, elementList |-> t.elementList]
    ELSE neighbordStateLeftDeep(aj, el, draw[1], draw[2])

\* one neighbour generated and judged in one run: by iiImprove's test, or by
\* saPhase's test where lucky is the answer of saProbability
NeighbourStep(st, data, draw, inII, lucky) ==
    LET t == neighbordStateDrawn(adj, twopo_bushy_space, st.elementList, draw)
        b == IF t.fail THEN [state |-> st, opte |-> data]
             ELSE buildTreeHooked(noJoin, rows, twopo_bushy_space, t.elementList, data)
        accepts == IF inII THEN iiAccepts(b.state.cost, st.cost)
                   ELSE b.state.cost - st.cost <= 0 \/ lucky
    IN  [state |-> IF accepts THEN b.state ELSE st, opte |-> b.opte, accepts |-> accepts]

InitHook ==
    /\ pc = "start"
    /\ ljqo_algorithm = "twopo"
    /\ numNodes \in 3 .. MaxSearchNodes
    /\ canJoin \in {cj \in SUBSET Pairs(numNodes) :
                       Len(CreateEdges(numNodes, cj).edgeList) <= MaxEdges}
    /\ noJoin = {}
    /\ rows \in RowsChoices(numNodes)
    /\ twopo_bushy_space \in BOOLEAN
    /\ twopo_heuristic_states \in BOOLEAN
    /\ twopo_ii_stop \in 1 .. MaxRestarts
    /\ twopo_ii_improve_states = TRUE
    /\ twopo_sa_phase = TRUE
    /\ twopo_sa_initial_temperature = 200
    /\ twopo_sa_temperature_reduction = 50
    /\ twopo_sa_equilibrium = 1
    /\ edgeList = <<>>
    /\ adj = [a \in Nodes(numNodes) |-> [b \in Nodes(numNodes) |-> FALSE]]
    /\ edge_list = <<>>
    /\ IdleState
    /\ IdleDraw
    /\ IdleCache
    /\ IdleList
    /\ IdleDP
    /\ IdlePlanner
    /\ IdleSdpConf
    /\ IdleSdp
    /\ opte = opteInit
    /\ unhooked_state = NoState
    /\ unhooked_result = NullNode
    /\ same_decisions = TRUE

\* makeInitialState in both runs, from the same edge order and memory
hookMakeInitialState ==
    /\ pc \in {"twopo_edges", "hook_run"}
    /\ ii_i < twopo_ii_stop /\ opte.plan_count < MaxPlans
    /\ \E edges \in (IF twopo_heuristic_states /\ ii_i = 0
                     THEN heuristicState_1(noJoin, rows, edgeList)
                     ELSE randomState(edgeList)) :
       \E el \in InitialElementLists(twopo_bushy_space, edges, numNodes) :
          /\ ~BuildCrashes(noJoin, rows, twopo_bushy_space, el)
          /\ LET a == buildTreeHooked(noJoin, rows, twopo_bushy_space, el, opte)
                 b == buildTreeHooked(noJoin, rows, twopo_bushy_space, el, NoOpte)
             IN  /\ improved_state' = a.state
                 /\ opte' = a.opte
                 /\ unhooked_state' = b.state
    /\ ii_i' = ii_i + 1
    /\ pc' = "hook_run"
    /\ buildTreeBookkeeping
    /\ UNCHANGED <<moveVars, listVars, cacheVars, drawVars, sdpConfVars, sdpVars, dpVars, inputVars, graphVars, new_state, result, input, ii_count,
                   cheapest_cost, saVars, min_state, min_cost, ii_costs,
                   unhooked_result, same_decisions>>

\* one neighbour in both runs, from the same draws
hookNeighbour ==
    /\ pc = "hook_run" /\ opte.plan_count < MaxPlans
    /\ \E draw \in NeighbourDraws(twopo_bushy_space, numNodes) :
       \E inII \in BOOLEAN : \E lucky \in BOOLEAN :
          LET a == NeighbourStep(improved_state, opte, draw, inII, lucky)
              b == NeighbourStep(unhooked_state, NoOpte, draw, inII, lucky)
          IN  /\ improved_state' = a.state
              /\ opte' = a.opte
              /\ unhooked_state' = b.state
              /\ same_decisions' = (same_decisions /\ a.accepts = b.accepts)
              /\ IF neighbordStateDrawn(adj, twopo_bushy_space,
                                        improved_state.elementList, draw).fail
                 THEN UNCHANGED plannerVars ELSE buildTreeBookkeeping
    /\ UNCHANGED <<moveVars, listVars, cacheVars, drawVars, sdpConfVars, sdpVars, pc, dpVars, inputVars, graphVars, new_state, result, searchVars,
                   unhooked_result>>

\* twopo: the final buildTree in both runs (outside the search, the hook is
\* called once more)
hookReturn ==
    /\ pc = "hook_run"
    /\ LET a == buildTreeHooked(noJoin, rows, twopo_bushy_space,
                                improved_state.elementList, opte)
           b == buildTreeHooked(noJoin, rows, twopo_bushy_space,
                                unhooked_state.elementList, NoOpte)
       IN  /\ result' = [relids |-> buildTree(noJoin, rows, twopo_bushy_space,
                                              improved_state.elementList).relids,
                         cost |-> a.state.cost]
           /\ unhooked_result' = [relids |-> buildTree(noJoin, rows, twopo_bushy_space,
                                                       unhooked_state.elementList).relids,
                                  cost |-> b.state.cost]
           /\ opte' = a.opte
    /\ restoreAndBuildBookkeeping
    /\ pc' = "done"
    /\ UNCHANGED <<moveVars, listVars, cacheVars, drawVars, sdpConfVars, sdpVars, dpVars, inputVars, graphVars, improved_state, new_state, searchVars,
                   unhooked_state, same_decisions>>

NextHook == createEdges \/ hookMakeInitialState \/ hookNeighbour \/ hookReturn

SpecHook == InitHook /\ [][NextHook]_vars

(* ================= SDP: the number of S-phase samples ================= *)

\* a + b in the int of the build (32 bits, two's complement), for a, b >= 0:
\* a sum above INT_MAX wraps to a + b - 2^32
AddInt(a, b) ==
    IF a > INT_MAX - b THEN (a - INT_MAX - 1) + (b - INT_MAX - 1) ELSE a + b

\* the settings tried: the ends of each admissible range and a value inside
SlopeChoices == {MIN_SDP_ITERATION_SLOPE, DEFAULT_SDP_ITERATION_SLOPE,
                 MAX_SDP_ITERATION_SLOPE}
ConstChoices == {MIN_SDP_ITERATION_CONST, DEFAULT_SDP_ITERATION_CONST,
                 MAX_SDP_ITERATION_CONST}
MinIterationsChoices == {MIN_SDP_MIN_ITERATIONS, DEFAULT_SDP_MIN_ITERATIONS,
                         MAX_SDP_MIN_ITERATIONS}
MaxIterationsChoices == {MIN_SDP_MAX_ITERATIONS, 6 * DEFAULT_SDP_MIN_ITERATIONS,
                         MAX_SDP_MAX_ITERATIONS}

\* s_phase: int end_loop = nrels * sdp_iteration_slope + sdp_iteration_const
\* (nrels * slope is far below INT_MAX for every nrels the planner can pass)
InitialEndLoop(nrels, slope, const) == AddInt(nrels * slope, const)

\* variant: the upper limit is tested first
LimitEndLoop_MaxFirst(x, min, max) == IF x > max THEN max ELSE IF x < min THEN min ELSE x

\* s_phase: if( end_loop < min ) end_loop = min; else if( end_loop > max ) end_loop = max;
LimitEndLoop(x, min, max) == IF x < min THEN min ELSE IF x > max THEN max ELSE x

InitIterations ==
    /\ pc = "sdp_edges"
    /\ ljqo_algorithm = "sdp"
    /\ numNodes \in 2 .. MaxNodes
    /\ canJoin = Pairs(numNodes)
    /\ noJoin = {}
    /\ rows = [u \in Nodes(numNodes) |-> u + 1]
    /\ twopo_bushy_space = TRUE
    /\ twopo_heuristic_states = TRUE
    /\ NoSearch
    /\ edgeList = <<>>
    /\ adj = [a \in Nodes(numNodes) |-> [b \in Nodes(numNodes) |-> FALSE]]
    /\ edge_list = <<>>
    /\ IdleState
    /\ IdleDraw
    /\ IdleCache
    /\ IdleList
    /\ IdleDP
    /\ IdleHook
    /\ IdlePlanner
    /\ sdp_iteration_slope \in SlopeChoices
    /\ sdp_iteration_const \in ConstChoices
    /\ sdp_min_iterations \in MinIterationsChoices
    /\ sdp_max_iterations \in MaxIterationsChoices
    /\ IdleSdp

\* s_phase() up to its main loop: the temporary context is created and
\* entered and the number of samples is fixed; min_cost = 0, and cur_rels and
\* min_rels are new arrays
s_phaseSetEndLoop ==
    /\ pc = "sdp_edges"
    /\ end_loop' = LimitEndLoop(InitialEndLoop(numNodes, sdp_iteration_slope,
                                               sdp_iteration_const),
                                sdp_min_iterations, sdp_max_iterations)
    /\ loop' = 0
    /\ min_cost' = 0
    /\ cur_rels' = <<>>
    /\ min_rels' = <<>>
    /\ CurrentMemoryContext' = "SDP Temp"
    /\ pc' = "s_phase_loop"
    /\ UNCHANGED <<join_rel_list, join_rel_hash, ctx, save_root_join_rel, at_entry,
                   after_restore, ctx_created, ctx_deleted, ctx_resets, reset_outside>>
    /\ UNCHANGED <<moveVars, listVars, cacheVars, drawVars, sdpConfVars, cur_rel, sample_costs, s_phase_rel_cost,
                   reconstructed, hookVars, dpVars, inputVars, graphVars,
                   stateVars, iiVars, saVars, min_state, ii_costs>>

NextIterations == s_phaseSetEndLoop

SpecIterations == InitIterations /\ [][NextIterations]_vars

(* ===================== SDP: the sampling phase ======================== *)

\* swap_edge on the edge array, positions counted from 0
swap_edge(list, a, b) == [list EXCEPT ![a + 1] = list[b + 1], ![b + 1] = list[a + 1]]

\* what the slot after the last edge can hold: create_edge_list takes the
\* array from palloc and writes the edges only
StaleEdges(n) == {create_edge(a, b) : <<a, b>> \in {x \in Nodes(n) \X Nodes(n) : x[1] # x[2]}}

\* make_join_rel and set_cheapest for two relations that may overlap; the
\* planner does not define the join of overlapping relations: it can stop
\* the backend, refuse the join, or hand back the relation it already has
\* for the relids of the first
JoinOutcomes(nj, rw, rel1, rel2) ==
    IF rel1.relids \cap rel2.relids # {}
    THEN {[crash |-> TRUE, node |-> NullNode], [crash |-> FALSE, node |-> NullNode],
          [crash |-> FALSE, node |-> rel1]}
    ELSE {[crash |-> FALSE, node |-> joinNodes(nj, rw, rel1, rel2)]}

\* s_phase_get_a_sample, the while over j: r = random() % (edge_list_size - j)
\* and swap [j] <--> [j+r]; the positions i and j it can leave, with the list
RECURSIVE SampleWhile(_, _, _, _, _)
SampleWhile(list, i, j, size, cur) ==
    IF j >= size THEN {[list |-> list, i |-> i, j |-> j]}
    ELSE UNION {LET l1 == swap_edge(list, j, j + r)
                    e  == l1[j + 1]
                IN  IF cur = NullNode THEN {[list |-> l1, i |-> i, j |-> j]}
                    ELSE IF e.relids \cap cur.relids = {}
                    THEN SampleWhile(l1, i, j + 1, size, cur)
                    ELSE IF e.relids \subseteq cur.relids
                    THEN SampleWhile(swap_edge(l1, i, j), i + 1, i + 1, size, cur)
                    ELSE {[list |-> l1, i |-> i, j |-> j]} :
                r \in 0 .. (size - j - 1)}

\* s_phase_get_a_sample, one pass of the for over i after the while left w:
\* the first join of the sample, a join of cur_rel with the relation [i]
\* brings, or [i] put aside at the end of the list.  st holds the list, i,
\* edge_list_size (size), cur_rel (cur) and the part of cur_rels written
\* (rels); positions are counted from the start of the whole array
SampleStep(nj, rw, st, w, nrels, n) ==
    LET i  == w.i
        l2 == IF w.j < st.size /\ i # w.j THEN swap_edge(w.list, i, w.j) ELSE w.list
    IN  IF st.cur = NullNode
        THEN LET e  == l2[i + 1]
                 jn == joinNodes(nj, rw, BaseNode(rw, e.node1), BaseNode(rw, e.node2))
             IN  IF jn = NullNode THEN {[st EXCEPT !.list = l2, !.i = i + 1]}
                 ELSE IF Len(st.rels) + 2 > nrels THEN {[st EXCEPT !.crash = TRUE]}
                 ELSE {[st EXCEPT !.list = l2, !.i = i + 1, !.cur = jn,
                                  !.rels = st.rels \o <<e.node1, e.node2>>]}
        ELSE IF w.j < st.size
        THEN LET e     == l2[i + 1]
                 other == IF e.node1 \in st.cur.relids THEN e.node2 ELSE e.node1
                 jn    == joinNodes(nj, rw, st.cur, BaseNode(rw, other))
             IN  IF jn = NullNode THEN {[st EXCEPT !.list = l2, !.i = i + 1]}
                 ELSE {[st EXCEPT !.list = l2, !.i = i + 1, !.cur = jn,
                                  !.rels = Append(st.rels, other)]}
        ELSE IF i = st.size - 1
        THEN {[st EXCEPT !.list = l2, !.i = i, !.size = st.size - 1]}
        ELSE IF i < Len(l2)
        THEN {[st EXCEPT !.list = swap_edge(l2, i, st.size - 1), !.i = i,
                         !.size = st.size - 1]}
        ELSE \* [i] is the slot after the last edge of the array
             {[st EXCEPT !.crash = TRUE]} \cup
             {[st EXCEPT !.list = [l2 EXCEPT ![st.size] = g], !.i = i,
                         !.size = st.size - 1] : g \in StaleEdges(n)}

\* s_phase_get_a_sample: for( i=0, rel_count=0; i < edge_list_size && rel_count < nrels; )
RECURSIVE SampleFor(_, _, _, _, _)
SampleFor(nj, rw, st, nrels, n) ==
    IF st.crash \/ ~(st.i < st.size /\ Len(st.rels) < nrels) THEN {st}
    ELSE UNION {UNION {SampleFor(nj, rw, s2, nrels, n) :
                          s2 \in SampleStep(nj, rw, st, w, nrels, n)} :
                w \in SampleWhile(st.list, st.i, st.i, st.size, st.cur)}

\* s_phase_get_a_sample, the merge of the results of the recursive call:
\* foreach over ret_list from position k; a join that succeeds merges the
\* item and starts the foreach again.  m holds cur_rel (cur), the relations
\* added to cur_rels_aux (units), ret_list (ret) and whether prev was set
\* (prev); list_delete_cell with the head cell and a prev that was not set
\* back to NULL leaves a list of two or more cells broken
RECURSIVE SampleMerge(_, _, _, _)
SampleMerge(nj, rw, m, k) ==
    IF m.crash \/ k > Len(m.ret) THEN {m}
    ELSE UNION {IF o.crash THEN {[m EXCEPT !.crash = TRUE]}
                ELSE IF o.node = NullNode
                THEN SampleMerge(nj, rw, [m EXCEPT !.prev = TRUE], k + 1)
                ELSE IF k = 1 /\ m.prev /\ Len(m.ret) > 1 THEN {[m EXCEPT !.crash = TRUE]}
                ELSE SampleMerge(nj, rw,
                                 [cur |-> o.node, units |-> m.units \o m.ret[k].units,
                                  ret |-> SubSeq(m.ret, 1, k - 1) \o
                                          SubSeq(m.ret, k + 1, Len(m.ret)),
                                  prev |-> m.prev, crash |-> FALSE], 1) :
                o \in JoinOutcomes(nj, rw, m.cur, m.ret[k].rel)}

\* mutant of UnitsOf: the fragments left unmerged are not written to cur_rels
UnitsOf_Dropped(ret) == <<>>

\* the relations of the items of a ret_list, in the order of the list
RECURSIVE UnitsOf(_)
UnitsOf(ret) == IF ret = <<>> THEN <<>> ELSE Head(ret).units \o UnitsOf(Tail(ret))

CrashedSample(list) == [list |-> list, rels |-> <<>>, ret |-> <<>>, crash |-> TRUE]

\* s_phase_get_a_sample on the edges from position lo of the array, for
\* nrels relations: the results it can return, each with the list as it
\* leaves it, cur_rels (rels) and ret_list (ret, the items with their
\* relation and their part of cur_rels); a call on no edges calls itself
\* without end
RECURSIVE s_phase_get_a_sample(_, _, _, _, _, _)
s_phase_get_a_sample(nj, rw, list, lo, nrels, n) ==
    IF lo >= Len(list) THEN {CrashedSample(list)}
    ELSE UNION {
        IF f.crash THEN {CrashedSample(f.list)}
        ELSE IF Len(f.rels) >= nrels
        THEN {[list |-> f.list, rels |-> f.rels,
               ret |-> <<[rel |-> f.cur, units |-> f.rels]>>, crash |-> FALSE]}
        ELSE UNION {
            IF sub.crash THEN {CrashedSample(sub.list)}
            ELSE {IF m.crash THEN CrashedSample(sub.list)
                  ELSE [list |-> sub.list,
                        rels |-> f.rels \o m.units \o UnitsOf(m.ret),
                        ret |-> Append(m.ret, [rel |-> m.cur, units |-> f.rels \o m.units]),
                        crash |-> FALSE] :
                  m \in SampleMerge(nj, rw, [cur |-> f.cur, units |-> <<>>, ret |-> sub.ret,
                                             prev |-> FALSE, crash |-> FALSE], 1)} :
            sub \in s_phase_get_a_sample(nj, rw, f.list, f.size, nrels - Len(f.rels), n)} :
        f \in SampleFor(nj, rw, [list |-> list, i |-> lo, size |-> Len(list),
                                 cur |-> NullNode, rels |-> <<>>, crash |-> FALSE],
                        nrels, n)}

\* s_phase: if( !min_cost || min_cost > cheapest_total(cur_rel) )
SampleIsBetter(minimum, cost) == minimum = 0 \/ minimum > cost

\* reconstruct_s_phase_rel, the loop: vector holds nrels slots, counted from
\* 0, of which the first vector_size are in use; a read of vector[nrels] is
\* a read after the array, with which the call does not return; past tells
\* that the call read a slot vector[j] with j >= vector_size
RECURSIVE ReconstructLoop(_, _, _, _, _, _)
ReconstructLoop(nj, rw, vector, i, vector_size, nrels) ==
    IF vector_size <= 1 THEN {[crash |-> FALSE, node |-> vector[0], past |-> FALSE]}
    ELSE IF i + 1 >= nrels THEN {[crash |-> TRUE, node |-> NullNode, past |-> TRUE]}
    ELSE UNION {IF o.crash THEN {[crash |-> TRUE, node |-> NullNode, past |-> TRUE]}
                ELSE {[x EXCEPT !.past = x.past \/ i + 1 >= vector_size] :
                      x \in IF o.node = NullNode
                            THEN ReconstructLoop(nj, rw, vector, i + 1, vector_size, nrels)
                            ELSE ReconstructLoop(nj, rw,
                                                 [k \in 0 .. (nrels - 1) |->
                                                     IF k = i THEN o.node
                                                     ELSE IF k >= i + 1 /\ k < vector_size - 1
                                                     THEN vector[k + 1] ELSE vector[k]],
                                                 0, vector_size - 1, nrels)} :
                o \in JoinOutcomes(nj, rw, vector[i], vector[i + 1])}

\* reconstruct_s_phase_rel
reconstruct_s_phase_rel(nj, rw, seq, nrels) ==
    ReconstructLoop(nj, rw, [k \in 0 .. (nrels - 1) |-> BaseNode(rw, seq[k + 1])], 0,
                    nrels, nrels)

\* the planner's refusals tried with SDP: none, the join of all relations,
\* the joins of {0, 1} with {2} and with {2, 3}
SdpNoJoinChoices(n) == {{}, {{Nodes(n)}}, {{{0, 1}, {2}}, {{0, 1}, {2, 3}}}}

\* cost models tried with SDP: those of RowsChoices, no rows at all (every
\* plan costs 0), no rows in relations 0 and 1
SdpRowsChoices(n) ==
    RowsChoices(n) \cup {[u \in Nodes(n) |-> 0], [u \in Nodes(n) |-> IF u < 2 THEN 0 ELSE 1]}

\* join graphs tried with SDP: a chain over all relations, the edge {0, 1}
\* apart from a chain over the other relations, and the cycle of 0, 1, 2
\* with a chain from 2 over the other relations
ChainGraph(n) == {{k, k + 1} : k \in 0 .. (n - 2)}
ApartGraph(n) == {{0, 1}} \cup {{k, k + 1} : k \in 2 .. (n - 2)}
CycleGraph(n) == {{0, 1}, {1, 2}, {0, 2}} \cup {{k, k + 1} : k \in 2 .. (n - 2)}

\* every graph of three relations, the three above for more
SdpGraphChoices(n) ==
    IF n <= 3 THEN SUBSET Pairs(n) ELSE {ChainGraph(n), ApartGraph(n), CycleGraph(n)}

\* the bookkeeping a call can find: nothing, or join relations of an outer
\* search with their hash table
EntryChoices ==
    {[length |-> 0, hash |-> "NULL", context |-> "caller"],
     [length |-> 2, hash |-> "caller", context |-> "caller"]}

\* the planner as an optimizer call finds it
EntryPlanner ==
    /\ at_entry \in EntryChoices
    /\ join_rel_list = at_entry.length
    /\ join_rel_hash = at_entry.hash
    /\ CurrentMemoryContext = at_entry.context
    /\ ctx = NoCtx
    /\ save_root_join_rel = [length |-> 0, hash |-> "NULL"]
    /\ after_restore = NoRestore
    /\ ctx_created = 0
    /\ ctx_deleted = 0
    /\ ctx_resets = 0
    /\ reset_outside = FALSE

InitSdp ==
    /\ pc = "start"
    /\ ljqo_algorithm = "sdp"
    /\ numNodes \in 3 .. MaxNodes
    /\ noJoin \in SdpNoJoinChoices(numNodes)
    /\ canJoin \in {cj \in SdpGraphChoices(numNodes) :
                       Len(CreateEdgeList(numNodes, cj, noJoin).list) <= MaxEdges}
    /\ rows \in SdpRowsChoices(numNodes)
    /\ twopo_bushy_space = TRUE
    /\ twopo_heuristic_states = TRUE
    /\ NoSearch
    /\ edgeList = <<>>
    /\ adj = [a \in Nodes(numNodes) |-> [b \in Nodes(numNodes) |-> FALSE]]
    /\ edge_list = <<>>
    /\ IdleState
    /\ IdleDraw
    /\ IdleCache
    /\ IdleList
    /\ IdleDP
    /\ IdleHook
    /\ EntryPlanner
    /\ sdp_iteration_slope = MIN_SDP_ITERATION_SLOPE
    /\ sdp_iteration_const = MIN_SDP_ITERATION_CONST
    /\ sdp_min_iterations = MIN_SDP_MIN_ITERATIONS
    /\ sdp_max_iterations = MIN_SDP_MAX_ITERATIONS
    /\ IdleSdp

\* s_phase: one pass of for( loop=0; loop < end_loop; loop++ ); the first
\* item of the returned list is the sample (a build with assertions stops
\* when the list has more than one item)
s_phaseSample ==
    /\ pc = "s_phase_loop" /\ loop < end_loop
    /\ \E smp \in s_phase_get_a_sample(noJoin, rows, edge_list, 0, numNodes, numNodes) :
       \E stops \in (IF smp.crash THEN {TRUE}
                     ELSE IF Len(smp.ret) > 1 THEN BOOLEAN ELSE {FALSE}) :
          /\ edge_list' = smp.list
          /\ IF stops
             THEN /\ pc' = "crashed"
                  /\ SetPlanner(ClearRootJoinRel(save_root_join_rel, ThePlanner))
                  /\ UNCHANGED <<loop, cur_rels, min_rels, cur_rel, sample_costs, min_cost>>
             ELSE LET cost   == Head(smp.ret).rel.cost
                      better == SampleIsBetter(min_cost, cost)
                  IN  /\ cur_rel' = Head(smp.ret).rel
                      /\ cur_rels' = IF better THEN min_rels ELSE smp.rels
                      /\ min_rels' = IF better THEN smp.rels ELSE min_rels
                      /\ min_cost' = IF better THEN cost ELSE min_cost
                      /\ sample_costs' = sample_costs \cup {cost}
                      /\ loop' = loop + 1
                      /\ pc' = pc
                      /\ SetPlanner(AddJoinRels(ClearRootJoinRel(save_root_join_rel,
                                                                 ThePlanner),
                                                numNodes - Len(smp.ret),
                                                at_entry.hash # "NULL"))
    /\ UNCHANGED <<save_root_join_rel, at_entry, after_restore, ctx_created, ctx_deleted,
                   ctx_resets, reset_outside>>
    /\ UNCHANGED <<moveVars, listVars, cacheVars, drawVars, sdpConfVars, end_loop, s_phase_rel_cost, reconstructed, hookVars,
                   dpVars, inputVars, edgeList, adj, stateVars, iiVars, saVars, min_state,
                   ii_costs>>

\* s_phase after the loop: elog(ERROR) when min_cost is 0; otherwise the
\* temporary context is left (for save_context.oldcxt, the context sdp was
\* called in) and destroyed, the bookkeeping is restored, and min_rels is
\* handed to dp_phase
s_phaseReturn ==
    /\ pc = "s_phase_loop" /\ loop >= end_loop
    /\ IF min_cost = 0
       THEN /\ pc' = "sdp_error"
            /\ UNCHANGED <<join_rel_list, join_rel_hash, CurrentMemoryContext,
                           s_phase_rel_cost, dpVars>>
       ELSE /\ pc' = "dp_start"
            /\ join_rel_list' = RestoreRootJoinRel(save_root_join_rel, ThePlanner).list
            /\ join_rel_hash' = RestoreRootJoinRel(save_root_join_rel, ThePlanner).hash
            /\ CurrentMemoryContext' = at_entry.context
            /\ s_phase_rel_cost' = min_cost
            /\ sequence' = min_rels
            /\ matrix' = [lv \in 0 .. (numNodes - 1) |->
                             [pos \in 0 .. (numNodes - lv - 1) |-> NullNode]]
            /\ level' = 0
            /\ p' = 0
            /\ attempted' = {}
    /\ UNCHANGED <<ctx, save_root_join_rel, at_entry, after_restore, ctx_created, ctx_deleted,
                   ctx_resets, reset_outside>>
    /\ UNCHANGED <<moveVars, listVars, cacheVars, drawVars, sdpConfVars, end_loop, loop, cur_rels, min_rels, cur_rel,
                   sample_costs, reconstructed, hookVars, inputVars, graphVars, stateVars,
                   searchVars>>

\* dp_phase's result as it stays in the matrix
DpResult == matrix[numNodes - 1][0]

\* sdp: if (pdata.s_phase_rel_cost && pdata.s_phase_rel_cost < cheapest_total(ret))
SamplingWasCheaper(s_cost, dp) == s_cost # 0 /\ s_cost < dp.cost

\* sdp after dp_phase: when the sampling phase had the cheaper relation,
\* restore_root_join_rel, reconstruct_s_phase_rel, and the cheaper of the
\* reconstruction and dp_phase's relation is returned
sdpReturn ==
    /\ pc = "dp_done" /\ ljqo_algorithm = "sdp"
    /\ IF SamplingWasCheaper(s_phase_rel_cost, result)
       THEN \E rec \in reconstruct_s_phase_rel(noJoin, rows, sequence, numNodes) :
               /\ SetPlanner(RestoreRootJoinRel(save_root_join_rel, ThePlanner))
               /\ IF rec.crash
                  THEN /\ pc' = "crashed"
                       /\ UNCHANGED <<result, reconstructed>>
                  ELSE /\ pc' = "sdp_done"
                       /\ reconstructed' = rec.node
                       /\ result' = IF rec.node.cost < result.cost THEN rec.node ELSE result
       ELSE /\ pc' = "sdp_done"
            /\ UNCHANGED <<result, reconstructed, join_rel_list, join_rel_hash,
                           CurrentMemoryContext, ctx>>
    /\ UNCHANGED <<save_root_join_rel, at_entry, after_restore, ctx_created, ctx_deleted,
                   ctx_resets, reset_outside>>
    /\ UNCHANGED <<moveVars, listVars, cacheVars, drawVars, sdpConfVars, end_loop, loop, cur_rels, min_rels, cur_rel,
                   sample_costs, s_phase_rel_cost, hookVars, dpVars, inputVars, graphVars,
                   improved_state, new_state, searchVars>>

NextSdp ==
    \/ create_edge_list
    \/ s_phaseSetEndLoop
    \/ s_phaseSample
    \/ s_phaseReturn
    \/ dp_phaseLevel0
    \/ dp_phaseCell
    \/ dp_phaseReturn
    \/ sdpReturn

SpecSdp == InitSdp /\ [][NextSdp]_vars

(* ============ both optimizers and the planner's bookkeeping =========== *)

\* a twopo call on a planner that may hold join relations already
InitTwopoCall ==
    /\ pc = "start"
    /\ ljqo_algorithm = "twopo"
    /\ numNodes \in 3 .. MaxSearchNodes
    /\ canJoin \in {cj \in SUBSET Pairs(numNodes) :
                       Len(CreateEdges(numNodes, cj).edgeList) <= MaxEdges}
    /\ noJoin = {}
    /\ rows = [u \in Nodes(numNodes) |-> u + 1]
    /\ twopo_bushy_space \in BOOLEAN
    /\ twopo_heuristic_states \in BOOLEAN
    /\ twopo_ii_stop \in 1 .. MaxRestarts
    /\ twopo_ii_improve_states \in BOOLEAN
    /\ twopo_sa_phase \in BOOLEAN
    /\ twopo_sa_initial_temperature = 25
    /\ twopo_sa_temperature_reduction = 50
    /\ twopo_sa_equilibrium = 1
    /\ edgeList = <<>>
    /\ adj = [a \in Nodes(numNodes) |-> [b \in Nodes(numNodes) |-> FALSE]]
    /\ edge_list = <<>>
    /\ IdleState
    /\ IdleDraw
    /\ IdleCache
    /\ IdleList
    /\ IdleDP
    /\ IdleHook
    /\ EntryPlanner
    /\ IdleSdpConf
    /\ IdleSdp

InitPlanner == InitTwopoCall \/ InitSdp

NextPlanner == NextSearch \/ NextSdp

SpecPlanner == InitPlanner /\ [][NextPlanner]_vars

(* =================== properties of the join graph ===================== *)

\* the unit has a feasible join with some other unit
HasFeasible(u) == \E pr \in canJoin : u \in pr

\* endpoints of the k-th edge of TwoPO's list, of SDP's list
EdgeEnds(k) == {edgeList[k][1], edgeList[k][2]}
edge_ends(k) == {edge_list[k].node1, edge_list[k].node2}

\* a cross-product edge: the planner knows no join clause for its endpoints
IsForced(k) == EdgeEnds(k) \notin canJoin
is_forced(k) == edge_ends(k) \notin canJoin

\* the units reachable from the units of s through the edges of TwoPO's list
RECURSIVE ReachableFrom(_)
ReachableFrom(s) ==
    LET t == s \cup {u \in Nodes(numNodes) :
                       \E k \in DOMAIN edgeList :
                           u \in EdgeEnds(k) /\ EdgeEnds(k) \cap s # {}}
    IN  IF t = s THEN s ELSE ReachableFrom(t)

GraphIsConnected == ReachableFrom({0}) = Nodes(numNodes)

\* C2: after createEdges, for every pair i # j, adj[i][j] is true iff the
\* edge list holds an edge with endpoints {i,j}, and every row of adj has a
\* true entry.
C2_AdjMatchesEdges ==
    pc = "twopo_edges" =>
        /\ \A i \in Nodes(numNodes) : \A j \in Nodes(numNodes) \ {i} :
               adj[i][j] <=> (\E k \in DOMAIN edgeList : EdgeEnds(k) = {i, j})
        /\ \A i \in Nodes(numNodes) : \E j \in Nodes(numNodes) : adj[i][j]

\* C2 witness: createEdges ran on four units, two joined by a join clause
\* and one reached only by cross-product edges
C2_Witness ==
    /\ pc = "twopo_edges" /\ numNodes = 4
    /\ \E k \in DOMAIN edgeList : IsForced(k)
    /\ \E k \in DOMAIN edgeList : ~IsForced(k)

\* C3: after createEdges the edge graph spans all units: every unit is
\* reachable from every other unit through edges, whatever canJoin is.
C3_GraphSpansAllUnits == pc = "twopo_edges" => GraphIsConnected

\* C4 as stated: a cross-product edge is incident only to units that have
\* no feasible edge; with a feasible edge at every unit the list holds
\* exactly the feasible pairs.
C4_ForcedTouchesOnlyIsolated ==
    /\ pc = "twopo_edges" =>
          \A k \in DOMAIN edgeList :
              IsForced(k) => \A u \in EdgeEnds(k) : ~HasFeasible(u)
    /\ pc = "sdp_edges" =>
          \A k \in DOMAIN edge_list :
              is_forced(k) => \A u \in edge_ends(k) : ~HasFeasible(u)

\* C4 amended: a cross-product edge is added only for a unit that has no
\* feasible edge, which is the edge's first endpoint (the other endpoint may
\* have feasible edges); with a feasible edge at every unit the edge list
\* holds exactly the feasible pairs, each once, and no cross-product edge.
C4_ForcedOnlyForIsolated ==
    /\ pc = "twopo_edges" =>
          /\ \A k \in DOMAIN edgeList : IsForced(k) => ~HasFeasible(edgeList[k][1])
          /\ (\A u \in Nodes(numNodes) : HasFeasible(u)) =>
                /\ {EdgeEnds(k) : k \in DOMAIN edgeList} = canJoin
                /\ Len(edgeList) = Cardinality(canJoin)
    /\ pc = "sdp_edges" =>
          /\ \A k \in DOMAIN edge_list : is_forced(k) => ~HasFeasible(edge_list[k].node1)
          /\ (\A u \in Nodes(numNodes) : HasFeasible(u)) =>
                /\ {edge_ends(k) : k \in DOMAIN edge_list} = canJoin
                /\ Len(edge_list) = Cardinality(canJoin)

\* C4 witness: createEdges added cross-product edges for a unit without a
\* join clause, to units that do have one
C4_Witness ==
    /\ pc = "twopo_edges"
    /\ \E k \in DOMAIN edgeList :
          IsForced(k) /\ ~HasFeasible(edgeList[k][1]) /\ HasFeasible(edgeList[k][2])

\* C5 as stated: every unit without a feasible join gets an edge to every
\* other unit, and adj has no all-false row.
C5_IsolatedLinkedToAll ==
    pc = "twopo_edges" =>
        /\ \A e \in Nodes(numNodes) :
               ~HasFeasible(e) =>
                   \A j \in Nodes(numNodes) \ {e} :
                       \E k \in DOMAIN edgeList : EdgeEnds(k) = {e, j}
        /\ \A i \in Nodes(numNodes) : \E j \in Nodes(numNodes) : adj[i][j]

\* C5 amended: the first unit (in list order) without a feasible join gets
\* an edge to every other unit; a later unit without a feasible join is
\* linked by that unit's cross products and gets no edges of its own; adj
\* has no all-false row.
C5_FirstIsolatedLinkedToAll ==
    pc = "twopo_edges" =>
        /\ \A e \in Nodes(numNodes) :
               (~HasFeasible(e) /\ \A u \in 0 .. (e - 1) : HasFeasible(u)) =>
                   /\ \A j \in Nodes(numNodes) \ {e} :
                          \E k \in DOMAIN edgeList : EdgeEnds(k) = {e, j}
                   /\ \A k \in DOMAIN edgeList : IsForced(k) => edgeList[k][1] = e
        /\ \A i \in Nodes(numNodes) : \E j \in Nodes(numNodes) : adj[i][j]

\* C5 witness: a single unit without a feasible join among four, linked to
\* the three others by createEdges
C5_Witness ==
    /\ pc = "twopo_edges" /\ numNodes = 4
    /\ Cardinality({e \in Nodes(numNodes) : ~HasFeasible(e)}) = 1
    /\ Cardinality({k \in DOMAIN edgeList : IsForced(k)}) = 3

(* ===================== properties of TwoPO states ===================== *)

\* the leaves under a join index of a bushy element list, left to right
RECURSIVE LeafSeq(_, _)
LeafSeq(el, joinIndex) ==
    IF ~isJoinIndex(joinIndex) THEN <<joinIndex>>
    ELSE LeafSeq(el, el[convertIndex(joinIndex)].child[0])
         \o LeafSeq(el, el[convertIndex(joinIndex)].child[1])

\* the relations of a left-deep element list, in join order
RelSeq(el) == [i \in 1 .. Cardinality(DOMAIN el) |-> el[i - 1].rel]

\* a sequence that holds every unit 0..N-1 exactly once
IsPermutationOfNodes(sq) ==
    /\ Len(sq) = numNodes
    /\ {sq[i] : i \in DOMAIN sq} = Nodes(numNodes)

\* a State is held by improved_state
HoldsState == pc \in {"built", "crashed"} /\ numNodes > 2

\* C6: every bushy State made by makeInitialState or reached from it by
\* neighbour moves has no cycle and decodes to a tree whose leaves are the
\* units 0..N-1, each exactly once
C6_BushyStateIsTree ==
    (HoldsState /\ twopo_bushy_space) =>
        /\ ~HasCycle(improved_state.elementList)
        /\ IsPermutationOfNodes(LeafSeq(improved_state.elementList,
               buildBushyLoop(improved_state.elementList, 0, {}, 0)))

\* C7: a left-deep State holds a permutation of 0..N-1 after the initial
\* encoding and after every neighbour move, failed or not
C7_LeftDeepIsPermutation ==
    (HoldsState /\ ~twopo_bushy_space) =>
        IsPermutationOfNodes(RelSeq(improved_state.elementList))

\* C1 (TwoPO): the relation twopo() returns covers exactly the N base relations
C1_ResultCoversAllRelations ==
    pc = "done" => result.relids = Nodes(numNodes)

(* =================== properties of the II and SA phases =============== *)

\* iiImprove is running, or is at its return
InIiImprove == pc = "ii_improve"

\* one pass of iiImprove's loop
IiImproveStep == InIiImprove /\ pc' = "ii_improve"

\* C8: within one iiImprove call cheapest_cost never increases, it is the cost
\* of the output State and is at most the cost of the input State (so the
\* State returned costs no more than the input), and a neighbour replaces
\* the output State only when its cost is strictly smaller
C8_IiImproveNeverWorsens ==
    /\ [](InIiImprove => /\ improved_state.cost = cheapest_cost
                         /\ cheapest_cost <= input.cost)
    /\ [][IiImproveStep =>
             /\ cheapest_cost' <= cheapest_cost
             /\ (improved_state' # improved_state =>
                    /\ improved_state' = new_state'
                    /\ new_state'.cost < cheapest_cost)]_vars

\* iiImprove returns a State cheaper than its input
C8_Witness ==
    /\ InIiImprove
    /\ ii_count >= Cardinality(DOMAIN input.elementList)
    /\ improved_state.cost < input.cost

\* saPhase is running, or has returned min_state to twopo
InSaPhase == pc = "sa" \/ (pc \in {"final", "done"} /\ twopo_sa_phase)

\* C9: at every step of saPhase min_cost is at most the cost of the State the
\* phase started from, and min_state, the State returned, has cost min_cost
C9_SaMinCostBounded ==
    InSaPhase => /\ min_cost <= S0.cost
                 /\ min_state.cost = min_cost

\* saPhase has returned a State cheaper than the one it started from
C9_Witness ==
    /\ pc = "final" /\ twopo_sa_phase
    /\ min_cost < S0.cost

(* ===================== properties of the DP phase ===================== *)

\* the plans of all ways to put parentheses on sequence[lo .. hi]
RECURSIVE Parenthesizations(_, _)
Parenthesizations(lo, hi) ==
    IF lo = hi THEN {BaseNode(rows, sequence[lo])}
    ELSE UNION {{[relids |-> l.relids \cup r.relids, cost |-> JoinPathCost(rows, l, r)] :
                    l \in Parenthesizations(lo, k), r \in Parenthesizations(k + 1, hi)} :
                k \in lo .. (hi - 1)}

\* the costs of all parenthesizations of the whole sequence
ParenthesizationCosts == {t.cost : t \in Parenthesizations(1, numNodes)}

\* C10: when the planner accepts every join and keeps the cheapest plan of
\* each relation set, the relation dp_phase returns has the minimum cost
\* over all parenthesizations of the sequence
C10_DpFindsCheapestParenthesization ==
    (pc = "dp_done" /\ noJoin = {}) =>
        /\ result.cost \in ParenthesizationCosts
        /\ \A c \in ParenthesizationCosts : result.cost <= c

\* dp_phase returns for five relations whose parenthesizations differ in cost
C10_Witness ==
    /\ pc = "dp_done" /\ noJoin = {} /\ numNodes = 5
    /\ Cardinality(ParenthesizationCosts) > 1

\* the relations at positions lo .. hi of the sequence (positions from 0)
RangeOf(lo, hi) == {sequence[k + 1] : k \in lo .. hi}

\* C11: every join dp_phase attempts takes two relations that cover adjacent
\* contiguous ranges lo..k and k+1..hi of the sequence, and the sequence
\* itself is never changed
C11_DpJoinsOnlyContiguous ==
    /\ [](\A a \in attempted :
            \E lo \in 0 .. (numNodes - 2) : \E k \in lo .. (numNodes - 2) :
            \E hi \in (k + 1) .. (numNodes - 1) :
                a[1] = RangeOf(lo, k) /\ a[2] = RangeOf(k + 1, hi))
    /\ [][sequence' = sequence]_vars

\* dp_phase has finished four relations: the whole matrix was filled from
\* attempts, and no attempt joined two single relations that are not neighbours
C11_Witness ==
    /\ pc = "dp_done" /\ numNodes = 4 /\ noJoin = {}
    /\ Cardinality(attempted) = 10
    /\ <<{sequence[1]}, {sequence[3]}>> \notin attempted

\* C16: dp_phase ends in the fatal error exactly when the final cell
\* matrix[N-1][0] is empty after the matrix is filled; empty cells elsewhere
\* do not end it, and a non-empty final cell is what it returns
C16_DpAbortsIffFinalCellEmpty ==
    /\ pc = "sdp_error" => level >= numNodes /\ matrix[numNodes - 1][0] = NullNode
    /\ pc = "dp_done" => /\ matrix[numNodes - 1][0] # NullNode
                         /\ result = matrix[numNodes - 1][0]
    /\ pc = "dp" => level <= numNodes

\* dp_phase returns although an intermediate cell is empty
C16_Witness ==
    /\ pc = "dp_done"
    /\ \E lv \in 1 .. (numNodes - 2) : \E pos \in 0 .. (numNodes - lv - 1) :
          matrix[lv][pos] = NullNode

\* the II phase has returned its min_state to twopo
IiPhaseOver == pc \in {"sa_start", "sa", "final", "done"}

\* the state the II phase returned
IiPhaseBest == IF twopo_sa_phase /\ pc # "sa_start" THEN S0 ELSE min_state

\* C12: iiPhase returns a state whose cost is the minimum over the
\* twopo_ii_stop states it compared, saPhase starts from exactly that state,
\* and the state twopo builds and returns costs no more than it
C12_ReturnsBestOfBothPhases ==
    /\ [](IiPhaseOver =>
            /\ IiPhaseBest.cost \in ii_costs
            /\ \A c \in ii_costs : IiPhaseBest.cost <= c
            /\ min_state.cost <= IiPhaseBest.cost
            /\ pc = "done" => result.cost = min_state.cost)
    /\ [][pc = "sa_start" => /\ S0' = min_state
                             /\ improved_state' = min_state
                             /\ min_state' = min_state]_vars

\* twopo returns after two restarts of different cost and an SA phase that
\* found a cheaper state than the II phase
C12_Witness ==
    /\ pc = "done" /\ twopo_sa_phase
    /\ Cardinality(ii_costs) = 2
    /\ result.cost < S0.cost

(* ================= properties of the convergence hook ================= *)

WantedSamples == numNodes * sdp_iteration_slope + sdp_iteration_const

IiNeighbourStep ==
    /\ pc = "ii_improve" /\ ii_count < Cardinality(DOMAIN input.elementList)
    /\ pc' \in {"ii_improve", "crashed"}
SaNeighbourStep ==
    /\ pc = "sa" /\ sa_i < twopo_sa_equilibrium * Cardinality(DOMAIN S0.elementList)
    /\ pc' \in {"sa", "crashed"}

\* C19: when neighbordStateLeftDeep reports failure, the output state has the
\* element order and the cost of the input state and buildTree is not called;
\* iiImprove counts the neighbour as non-improving (its counter grows by one,
\* its best state and cost stay), saPhase goes on with the next pass (current
\* state, current cost and minimum unchanged), and neither crashes; a call
\* whose last move failed returns the join relation of its cheapest state.
C19_FailedMoveIsHarmless ==
    /\ [][(IiNeighbourStep /\ fail') =>
              /\ new_state'.elementList = improved_state.elementList
              /\ new_state'.cost = improved_state.cost
              /\ ~tree_built'
              /\ pc' = "ii_improve"
              /\ ii_count' = ii_count + 1
              /\ improved_state' = improved_state
              /\ cheapest_cost' = cheapest_cost]_vars
    /\ [][(SaNeighbourStep /\ fail') =>
              /\ improved_state'.elementList = improved_state.elementList
              /\ improved_state'.cost = improved_state.cost
              /\ new_state'.elementList = improved_state.elementList
              /\ ~tree_built'
              /\ pc' = "sa"
              /\ sa_i' = sa_i + 1
              /\ improved_cost' = improved_cost
              /\ min_state' = min_state /\ min_cost' = min_cost]_vars
    /\ [](pc = "done" /\ fail => result.relids # NULL /\ result.cost = min_state.cost)

\* C19 witness: a run that returned the cheapest state after its last saPhase
\* pass was a failed left-deep move
C19_Witness ==
    /\ pc = "done" /\ ~twopo_bushy_space /\ twopo_sa_phase
    /\ fail /\ ~tree_built
    /\ stage_count > 0

(* ============== properties of TwoPO under refused joins =============== *)

\* C18: when the planner refuses a join that TwoPO tries while building a
\* State's tree (joinNodes in buildTree or in heuristicState_1), the search
\* goes on or skips the state: the call never ends in an error, a failed
\* assertion or the use of a missing (NULL) node.
C18_RefusedJoinIsNoEdge == noJoin # {} => pc # "crashed"


(* ================= properties of the SDP call ========================= *)

\* s_phase has ended with its elog(ERROR)
SamplingFailed == pc = "sdp_error" /\ end_loop > 0 /\ sequence = <<>>

\* s_phase has returned
SamplingReturned == pc \in {"dp_start", "dp", "dp_done", "sdp_done"} /\ end_loop > 0

\* C15: a sampling phase that ends with min_cost 0 raises the error and sdp
\* has no result, and the error is not raised when a sample of positive cost
\* was produced
C15_ErrorOnlyWithoutPositiveSample ==
    /\ SamplingReturned => s_phase_rel_cost # 0
    /\ SamplingFailed => result = NullNode /\ \A c \in sample_costs : c <= 0

\* sdp has returned after dp_phase
SdpReturned == pc = "sdp_done"

\* sdp stopped inside reconstruct_s_phase_rel
ReconstructionFailed == pc = "crashed" /\ sequence # <<>>

\* C17: with a positive sampling cost below the cost of dp_phase's relation
\* sdp does not fail, rebuilds a relation over the whole winning sequence and
\* returns it iff it is strictly cheaper than dp_phase's relation; otherwise
\* dp_phase's relation is returned without a reconstruction; the cost of the
\* returned relation is never above the cost of dp_phase's relation
C17_ReconstructionOrDpResult ==
    /\ ~ReconstructionFailed
    /\ SdpReturned =>
          /\ IF SamplingWasCheaper(s_phase_rel_cost, DpResult)
             THEN /\ reconstructed.relids = {sequence[k] : k \in DOMAIN sequence}
                  /\ result = IF reconstructed.cost < DpResult.cost THEN reconstructed
                              ELSE DpResult
             ELSE result = DpResult /\ reconstructed = NullNode
          /\ result.cost <= DpResult.cost

(* ============ properties of the planner's bookkeeping ================= *)

\* the bookkeeping twopo found when it was called, with no tempCtx record
EntryBookkeeping ==
    [list |-> at_entry.length, hash |-> at_entry.hash, context |-> at_entry.context,
     ctx |-> NoCtx]

\* C14: a twopo call over three or more relations creates its temporary
\* context once and tears it down once, resets take effect only while the
\* context exists, and restoreOldContext returns with the bookkeeping of the
\* entry (list length, hash table, memory context, no tempCtx record); in
\* SDP, after create_edge_list and after s_phase, the length of join_rel_list
\* and join_rel_hash are the ones save_root_join_rel took
C14_BookkeepingRestored ==
    /\ ctx_created <= 1 /\ ctx_deleted <= ctx_created /\ ~reset_outside
    /\ (ctx # NoCtx) <=> (ctx_created = 1 /\ ctx_deleted = 0)
    /\ ctx_resets > 0 => ctx_created = 1
    /\ (ljqo_algorithm = "twopo" /\ pc = "done") =>
          ctx_created = 1 /\ ctx_deleted = 1 /\ after_restore = EntryBookkeeping
    /\ (ljqo_algorithm = "sdp" /\ pc \in {"sdp_edges", "dp_start"}) =>
          /\ save_root_join_rel = [length |-> at_entry.length, hash |-> at_entry.hash]
          /\ join_rel_list = save_root_join_rel.length
          /\ join_rel_hash = save_root_join_rel.hash

\* a twopo call that found join relations and a hash table, reset its
\* context at least twice and has returned
C14_Witness ==
    /\ ljqo_algorithm = "twopo" /\ pc = "done"
    /\ at_entry.length > 0 /\ at_entry.hash # "NULL"
    /\ ctx_resets >= 2
    /\ join_rel_list = at_entry.length + numNodes - 1

\* an SDP call that found join relations and a hash table and has left s_phase
C14_SdpCase ==
    /\ ljqo_algorithm = "sdp" /\ pc = "dp_start"
    /\ at_entry.length > 0 /\ at_entry.hash # "NULL"

(* ============ properties of the edge list of the S phase ============== *)

\* how often edge e is in an edge list
EdgeCount(list, e) == Cardinality({k \in DOMAIN list : list[k] = e})

\* two edge lists of the same size holding the same edges, each as often
SameEdges(l1, l2) ==
    /\ Len(l1) = Len(l2)
    /\ \A k \in DOMAIN l1 : EdgeCount(l1, l1[k]) = EdgeCount(l2, l1[k])

\* C21: once create_edge_list has built the edge list, and after any number
\* of S-phase samples (finished or stopped on the way), the edge list has
\* the size and holds exactly the edges (node1, node2, relids), each as
\* often, that create_edge_list built: no edge is lost, duplicated or changed.
C21_EdgeListKept ==
    (ljqo_algorithm = "sdp" /\ pc # "start") =>
        SameEdges(edge_list, CreateEdgeList(numNodes, canJoin, noJoin).list)

(* ============== properties of the bushy neighbour move ================ *)

\* every negative child of the element at index k refers to a join element
\* of smaller index
ChildrenPrecede(el) ==
    \A k \in DOMAIN el : \A b \in {0, 1} :
        isJoinIndex(el[k].child[b]) => convertIndex(el[k].child[b]) < k

\* a bushy State over a connected edge graph is held by improved_state
HoldsBushyState == pc = "built" /\ twopo_bushy_space /\ GraphIsConnected

LastElement(el) == Cardinality(DOMAIN el) - 1

\* the initial state of a restart has just been encoded and built
JustEncoded == ii_i' = ii_i + 1 /\ HoldsBushyState'

C23_JoinElementsLegal ==
    HoldsBushyState =>
        \A k \in DOMAIN improved_state.elementList :
            hasEdgeBetweenSubtrees(adj, improved_state.elementList,
                                   improved_state.elementList[k].child[0],
                                   improved_state.elementList[k].child[1])

\* C23 witness: a bushy State of four relations reached by a swap that
\* put a join element below its former brother
C23_Witness ==
    /\ HoldsBushyState /\ numNodes = 4
    /\ new_state.elementList # <<>>
    /\ improved_state.elementList # new_state.elementList
    /\ \E k \in DOMAIN improved_state.elementList :
           /\ isJoinIndex(improved_state.elementList[k].child[0])
           /\ ~isJoinIndex(new_state.elementList[k].child[0])

\* a legal bushy element list: the leaves under the last element are the
\* units 0..N-1, each once, and the two children of every join element are
\* linked by an adjacency edge
LegalBushy(el) ==
    /\ IsPermutationOfNodes(LeafSeq(el, convertIndex(LastElement(el))))
    /\ \A k \in DOMAIN el : hasEdgeBetweenSubtrees(adj, el, el[k].child[0], el[k].child[1])

\* neighbordStateBushy is in its loop on a legal State
InLoopOnLegal == pc = "nb_bushy" /\ LegalBushy(new_state.elementList)

\* C24: for every legal bushy State with N >= 3, neighbordStateBushy returns
\* under fair random choices: some join element has a join element for a
\* child, every such element admits a swap in one of the two orientations,
\* and so the loop while( !ok ) ends.
C24_BushyMoveReturns ==
    /\ [](InLoopOnLegal =>
            /\ \E r \in DOMAIN new_state.elementList :
                   FatherSide(new_state.elementList, r) # 2
            /\ \A r \in DOMAIN new_state.elementList :
                   FatherSide(new_state.elementList, r) # 2 =>
                       TryJoinElement(adj, new_state.elementList, r).ok)
    /\ (InLoopOnLegal ~> pc = "nb_returned")

\* C24 witness: the loop runs on a legal State of four relations in which
\* one join element has no join element for a child, so that a pass on it
\* finds no swap
C24_Witness ==
    /\ InLoopOnLegal /\ numNodes = 4
    /\ \E r \in DOMAIN new_state.elementList :
           ~TryJoinElement(adj, new_state.elementList, r).ok
    /\ ii_i = 1

(* ============= properties of the left-deep neighbour move ============= *)

\* every position i >= 1 of a left-deep element list holds a unit adjacent
\* to a unit at an earlier position
EachUnitConnectable(el) ==
    \A i \in DOMAIN el : i >= 1 => canRelPushedDown(adj, el, el[i].rel, i)

\* C25: in every left-deep State TwoPO reaches on a connected edge graph
\* through encodeLeftDeepTree and any sequence of accepted swap or
\* 3-element rotation moves, every position i >= 1 holds a unit that is
\* adjacent to at least one unit at positions 0..i-1.
C25_UnitsStayConnectable ==
    (pc = "built" /\ ~twopo_bushy_space /\ GraphIsConnected) =>
        EachUnitConnectable(improved_state.elementList)

(* ===================== properties of iiImprove ======================== *)

\* local_minimum of the running iiImprove call
LocalMinimum == Cardinality(DOMAIN input.elementList)

\* iiImprove returns to iiPhase
IiImproveReturns == InIiImprove /\ pc' \notin {"ii_improve", "crashed"}

\* C26: iiImprove stops exactly when size consecutive neighbours were not
\* strictly cheaper than the current best: the counter of non-improving
\* neighbours is 0 after an accepted neighbour, grows by one with any other
\* neighbour, never passes size, and the call returns when and only when it
\* is size; and every call of iiImprove ends (the costs are finitely many).
C26_IiImproveStopsAtLocalMinimum ==
    /\ [][IiImproveStep =>
             /\ ii_count < LocalMinimum
             /\ ii_count' = IF new_state'.cost < cheapest_cost THEN 0 ELSE ii_count + 1
             /\ (ii_count' = 0) <=> (improved_state' # improved_state)]_vars
    /\ [][IiImproveReturns => ii_count = LocalMinimum]_vars
    /\ [](InIiImprove => ii_count <= LocalMinimum)
    /\ (InIiImprove ~> ~InIiImprove)

\* C26 witness: iiImprove is at its return after a neighbour had been
\* accepted and size further neighbours were not cheaper
C26_Witness ==
    /\ InIiImprove
    /\ ii_count = LocalMinimum
    /\ improved_state.cost < input.cost
    /\ new_state.cost >= cheapest_cost

(* ================= properties of the frozen condition ================= *)

\* saPhase leaves its outer loop (or does not enter it)
SaPhaseStops == pc \in {"sa_start", "sa"} /\ pc' = "final"

\* a pass of saPhase finds a new global minimum
SaNewMinimumStep == pc = "sa" /\ pc' = "sa" /\ min_cost' < min_cost

\* C27: saPhase stops when the temperature has dropped below 1 and 5
\* reduction rounds in a row brought no new global minimum: the round
\* counter is 0 after every new global minimum, and the outer loop does not
\* end before both hold (temperature below 1, 5 rounds without a new minimum).
C27_FrozenNeedsBoth ==
    /\ [][SaNewMinimumStep => stage_count' = 0]_vars
    /\ [][SaPhaseStops => temperature' < TempUnit /\ stage_count' >= 5]_vars


(* ------------------ TwoPO: the acceptance of saPhase ------------------- *)

\* C28: of the 100 draws of saProbability exactly (int)(100.0*e) accept, so
\* that a percentage of 0 never accepts a worse neighbour
C28_PercentOfDrawsAccept ==
    pc = "sa_probability_done" =>
        /\ Cardinality({d \in Draws : saProbabilityReturns(d, sa_e)}) = sa_e
        /\ (sa_e = 0 => ~sa_accepted)

\* a pass of saPhase's for loop: a neighbour was generated and compared
SaGenerates == pc = "sa" /\ sa_i' = sa_i + 1

\* the cost of the neighbour of that pass: it is improved_state if it was
\* accepted (swapValues), and new_state if it was rejected
SaNeighbourCost ==
    IF improved_state' = improved_state THEN new_state'.cost ELSE improved_state'.cost

LowerCost(a, b) == IF a < b THEN a ELSE b

\* C29: saPhase starts with min_cost at the cost of its start state, after
\* every neighbour it generates, accepted or rejected, min_cost is the lower
\* of its value before and the neighbour's cost, and min_cost is never above
\* the cost of the current state; min_state is the state of that cost
C29_MinimumSeen ==
    /\ [][pc = "sa_start" => min_cost' = S0'.cost /\ improved_cost' = S0'.cost]_vars
    /\ [][SaGenerates => min_cost' = LowerCost(min_cost, SaNeighbourCost)]_vars
    /\ [](pc = "sa" => min_cost <= improved_cost /\ min_state.cost = min_cost)
    /\ [][pc = "sa" /\ pc' = "final" => min_cost' = min_cost /\ min_state' = min_state]_vars

\* saPhase found a minimum below its start and went uphill from it
C29_Witness ==
    /\ pc = "sa" /\ sa_i > 0
    /\ min_cost < S0.cost
    /\ min_cost < improved_cost
    /\ new_state # NoState

(* ------------------- TwoPO: the orders of randomState ------------------ *)

\* all the orders of a list of edges
Orders(edges) ==
    LET n == Len(edges)
    IN  {[k \in 1 .. n |-> edges[f[k]]] :
            f \in {g \in [1 .. n -> 1 .. n] : \A a, b \in 1 .. n : g[a] = g[b] => a = b}}

\* the last State was made by makeInitialState from an order of randomState
RandomStateCalled ==
    /\ pc = "built" /\ ii_i > 0
    /\ ~(twopo_heuristic_states /\ ii_i = 1)

\* C30: the results of randomState are the orders of essentials->edgeList:
\* each result is one of them, and each of the numEdges! orders is a result
C30_EveryOrderPossible == RandomStateCalled => randomState(edgeList) = Orders(edgeList)

(* -------------------- SDP: the samples of s_phase ---------------------- *)

\* s_phase holds a sample: the last call of s_phase_get_a_sample returned
SampleHeld == pc = "s_phase_loop" /\ loop > 0

C32_SampleCoversAllRelations == SampleHeld => cur_rel.relids = Nodes(numNodes)

\* C33: s_phase keeps the cheapest sample: after every sample min_cost is
\* the least of the costs of the samples generated so far, and the sequence
\* and the cost handed on after the loop are those of that sample
C33_CheapestSampleKept ==
    /\ SampleHeld => \A c \in sample_costs : min_cost <= c
    /\ pc = "dp_start" => /\ \A c \in sample_costs : s_phase_rel_cost <= c
                          /\ s_phase_rel_cost \in sample_costs
                          /\ sequence = min_rels

(* --------------------- SDP: the cells of dp_phase ---------------------- *)

\* dp_phase has processed matrix[lv][pos]
CellProcessed(lv, pos) ==
    /\ pc \in {"dp", "dp_done", "sdp_error"}
    /\ lv < level \/ (lv = level /\ pos < p)

\* C34: a processed cell matrix[level][p], level >= 1, is non-empty iff the
\* evaluator accepted the join of some split whose two sub-cells are
\* non-empty (a later split that fails erases nothing), and a non-empty cell
\* covers the positions p .. p+level of the sequence
C34_CellKeepsAcceptedJoin ==
    \A lv \in 1 .. (numNodes - 1) : \A pos \in 0 .. (numNodes - lv - 1) :
        CellProcessed(lv, pos) =>
            /\ matrix[lv][pos] # NullNode <=> CellJoins(noJoin, rows, matrix, lv, pos) # {}
            /\ matrix[lv][pos] # NullNode => matrix[lv][pos].relids = RangeOf(pos, pos + lv)

(* ------------------ SDP: reconstruct_s_phase_rel ----------------------- *)

\* sdp has called reconstruct_s_phase_rel on the sequence of the sampling phase
ReconstructionCalled ==
    /\ pc \in {"sdp_done", "crashed"} /\ sequence # <<>> /\ level >= numNodes
    /\ DpResult # NullNode /\ SamplingWasCheaper(s_phase_rel_cost, DpResult)

\* C35: reconstruct_s_phase_rel reads no slot vector[j] with j >= vector_size
\* and returns, with vector_size == 1, whatever the evaluator answers
C35_ReconstructionStaysInVector ==
    ReconstructionCalled =>
        \A rec \in reconstruct_s_phase_rel(noJoin, rows, sequence, numNodes) :
            ~rec.crash /\ ~rec.past

(* ------------------- TwoPO: the plan cache of joinNodes ---------------- *)

\* a State was built with the plan cache compiled in
BuiltWithCache == pc = "built" /\ ii_i > 0

\* C36: a node joinNodes takes from a parents list has the two requested
\* nodes as its children and was allocated after the last reset of the
\* temporary context, and a State gets from buildTree the cost it gets in
\* a run without the cache
C36_CacheKeepsCosts ==
    BuiltWithCache =>
        /\ \A h \in reused : /\ {h.node[1], h.node[2]} = {h.inner, h.outer}
                              /\ h.node[3] = h.arena
        /\ improved_state.cost =
              Built(noJoin, rows, twopo_bushy_space, improved_state.elementList).cost

\* the part on the nodes returned alone
CacheHitsAreLive ==
    \A h \in reused : {h.node[1], h.node[2]} = {h.inner, h.outer} /\ h.node[3] = h.arena

(* ---------------- TwoPO: the first unit of a left-deep State ----------- *)

\* the moves neighbordStateLeftDeep can make from an element list: the swap
\* with idx = random()%(size-1), the 3-cycle with idx = random()%(size-2)
LeftDeepMoves(el) ==
    LET size == Cardinality(DOMAIN el)
    IN  {neighbordStateLeftDeep(adj, el, TRUE, idx) : idx \in 0 .. (size - 2)}
            \cup {neighbordStateLeftDeep(adj, el, FALSE, idx) : idx \in 0 .. (size - 3)}

\* C37: no move of neighbordStateLeftDeep changes the unit at position 0
\* of the element list: for the drawn position 0 canRelPushedDown finds
\* no unit before it, and the swap and the 3-cycle both fail; checked for
\* every move from every left-deep State a run holds
C37_FirstUnitStays ==
    (pc = "built" /\ ~twopo_bushy_space) =>
        \A t \in LeftDeepMoves(improved_state.elementList) :
            t.elementList[0].rel = improved_state.elementList[0].rel

\* after the first makeInitialState a left-deep move has changed the order
\* of the units
C37_Witness ==
    /\ pc = "built" /\ ~twopo_bushy_space /\ ii_i = 1
    /\ numNodes = 4
    /\ new_state # NoState
    /\ new_state.elementList # improved_state.elementList
    /\ new_state.elementList[0].rel = improved_state.elementList[0].rel

(* ------------------- SDP: the edge list of create_edge_list ------------ *)

\* create_edge_list has returned
EdgeListMade == ljqo_algorithm = "sdp" /\ pc # "start" /\ edge_list # <<>>

\* C38: the list create_edge_list returns holds no unordered pair of
\* relations twice, forced edges of several relations without a join
\* clause included, and has at most number_of_rels^2 edges
C38_NoPairTwice ==
    EdgeListMade =>
        /\ \A a, b \in DOMAIN edge_list :
               edge_list[a].relids = edge_list[b].relids => a = b
        /\ Len(edge_list) <= numNodes * numNodes

\* the part on the size of the list alone
EdgeListFits == Len(edge_list) <= numNodes * numNodes

(* --------------------------- TwoPO: listCopy --------------------------- *)

\* listCopy has returned
ListCopied == pc = "list_copied"

\* C39: after listCopy(dest, src) the list returned equals src: listSize is
\* the same and listGetElement gives the same element at every index below
\* listSize(src), for dest NULL and for dest an existing list
C39_CopyEqualsSource ==
    ListCopied =>
        /\ listSize(dest_list) = listSize(src_list)
        /\ \A i \in 0 .. (listSize(src_list) - 1) :
               listGetElement(dest_list, i) = listGetElement(src_list, i)

\* the part on the cells of the buffer alone
CopiedCellsEqual ==
    ListCopied =>
        \A i \in 0 .. (listSize(src_list) - 1) :
            listGetElement(dest_list, i) = listGetElement(src_list, i)

====
